---- MODULE Spec2Model ----
(***************************************************************************)
(* Verification model of the EPICA / SISAL palaeoclimate Linked-Data       *)
(* pipeline: the scripts EPICA/plot_epica_from_tab.py and                  *)
(* SISAL/plot_sisal_from_csv.py (loaders, plotting, the graph builders     *)
(* build_epica_rdf, build_sisal_rdf and build_sisal_sites_rdf, the merger  *)
(* export_sisal_rdf), the geometry helpers of ontology/geo_lod_utils.py    *)
(* and the orchestrator main.py.                                           *)
(*                                                                         *)
(* Representation.                                                         *)
(*   - An rdflib graph is its set of triples <<s, p, o>>.  s and o are     *)
(*     terms, p is the predicate's prefixed name.                          *)
(*   - A term is a tagged tuple: <<"U", name>> a URI, <<"D", num, den>> an *)
(*     xsd:decimal num/den, <<"I", n>> an xsd:integer, <<"S", text>> a     *)
(*     plain or language-tagged string, <<"T", day>> an xsd:date,          *)
(*     <<"W", text>> a geo:wktLiteral, <<"G", w, p, xs, i>> the decimal    *)
(*     that savgol_filter(xs, w, p) returns at position i.                 *)
(*   - A text that is inspected character-wise (WKT) is a sequence of      *)
(*     tokens; " " and "<" are tokens of their own, so strip() and         *)
(*     startswith("<") are computed on the sequence.                       *)
(*   - A table cell is <<>> (NaN / missing) or <<v>> (the number v).       *)
(*   - A written text file is the tuple of the values interpolated into    *)
(*     its template; a written graph file is the tuple <<"turtle", name>>  *)
(*     of the graph variable that was serialised.                          *)
(*   - The clock is the day number; a run reads it at each datetime.now(), *)
(*     and two reads of one run can fall on either side of midnight.       *)
(*   - The namespace bindings of a graph are a function prefix -> URI,     *)
(*     kept beside its triples; what a new Graph() has bound is the        *)
(*     installed rdflib's choice (bind_namespaces).                        *)
(***************************************************************************)
EXTENDS Integers, Sequences, FiniteSets, TLC

VARIABLES
    script,     \* which program of the repository runs: "epica", "sisal", "geo", "main"
    pc,         \* the running program's position
    params,     \* the smoothing globals [rw, sgw, sgp] of the run
    rdf_available, \* RDF_AVAILABLE: the import of rdflib succeeded
    bind_namespaces, \* rdflib: the prefixes a new Graph() has bound, "core" or "rdflib"
    bindings,   \* graph name -> (prefix -> URI): the namespace bindings of the graphs built
    today,      \* the day of the latest datetime.now()
    run,        \* 1 in the first run over the input, 2 in the repeated run
    prev,       \* the graphs and files of the first run, once it is repeated
    plotted,    \* the run executes main(), whose plotting precedes the export
    plots,      \* the plot files written (names without extension)
    rdf_dir,    \* the files written to rdf/ and ontology/: name -> content
    stdout,     \* the diagnostic notices printed
    df_ch4,     \* EPICA: loaded CH4 table
    df_d18o,    \* EPICA: loaded d18O table
    g_epica,    \* EPICA: [raised, g] result of build_epica_rdf
    input,      \* SISAL: [shape, found], the per-cave files of the run
    files,      \* SISAL: the input files loaded, a sequence of [slug, df]
    df_sites,   \* SISAL: [present, rows], the sites table when its file exists
    g_sites,    \* SISAL: triples of the sites graph (export step 3)
    g_caves,    \* SISAL: sequence of the per-cave graphs (export step 4)
    combined,   \* SISAL: triples of the combined graph
    wkt_in,     \* geo: the WKT text under test
    wkt_out,    \* geo: the results of the _ensure_crs calls, in call order
    g_geo,      \* geo: graph filled by add_geo_site_from_wkt / add_feature_collection
    fc_inputs,  \* geo: the location lists handed to add_feature_collection
    args,       \* main.py: the command-line flags given
    exists,     \* main.py: which of the two scripts exist
    launched,   \* main.py: the scripts started by run_script, in order
    success,    \* main.py: epica_success / sisal_success
    produced,   \* main.py: <<script, kind>> outputs the started scripts wrote
    exit_code   \* main.py: the status of sys.exit, -1 while running

run_vars == <<rdf_available, today, run, prev, plotted, plots, rdf_dir, stdout>>
epica_vars == <<df_ch4, df_d18o, g_epica>>
sisal_vars == <<input, files, df_sites, g_sites, g_caves, combined>>
geo_vars == <<wkt_in, wkt_out, g_geo, fc_inputs>>
main_vars == <<args, exists, launched, success, produced, exit_code>>

vars == <<script, pc, params, bind_namespaces, bindings, run_vars, epica_vars, sisal_vars, geo_vars, main_vars>>

---------------------------------------------------------------------------
(* Bounds of the model *)

MaxRows == 5
MaxLen == 5
MaxDay == 2
MaxSites == 3

---------------------------------------------------------------------------
(* Program constants *)

ROLLING_WINDOW == 11
SG_WINDOW == 11
SG_POLYORDER == 2

---------------------------------------------------------------------------
(* Terms and cells *)

NaN == <<>>
Num(v) == <<v>>
notna(c) == c # NaN
val(c) == c[1]

URIRef(name) == <<"U", name>>
GEOLOD(local) == URIRef("geolod:" \o local)
Decimal(n) == <<"D", n, 1>>
Integer(n) == <<"I", n>>
Str(text) == <<"S", text>>
Date(day) == <<"T", day>>
WktLiteral(text) == <<"W", text>>

Range(s) == {s[i] : i \in DOMAIN s}

RECURSIVE SelectIdx(_, _)
\* the sub-table of the rows satisfying Keep, in their original order
\* (boolean-mask indexing / dropna followed by reset_index(drop=True))
SelectIdx(df, keep) ==
    IF df = <<>> THEN <<>>
    ELSE IF keep[1] THEN <<Head(df)>> \o SelectIdx(Tail(df), Tail(keep))
         ELSE SelectIdx(Tail(df), Tail(keep))

RECURSIVE Zeros(_)
Zeros(k) == IF k <= 0 THEN "" ELSE "0" \o Zeros(k - 1)

RECURSIVE NDigits(_)
NDigits(n) == IF n < 10 THEN 1 ELSE 1 + NDigits(n \div 10)

\* f"{n:04d}" and f"{n:05d}" for n >= 0: zero-padded to a minimum width,
\* never truncated
Pad(n, width) == Zeros(width - NDigits(n)) \o ToString(n)

\* f"{x:.6f}" for a coordinate x given in millionths of a degree
Fmt6(x) ==
    LET a == IF x < 0 THEN -x ELSE x
    IN  (IF x < 0 THEN "-" ELSE "") \o ToString(a \div 1000000) \o "."
        \o Pad(a % 1000000, 6)

RECURSIVE SortedSeq(_)
\* the elements of a finite set of integers in ascending order
SortedSeq(S) ==
    IF S = {} THEN <<>>
    ELSE LET m == CHOOSE x \in S : \A y \in S : x <= y
         IN  <<m>> \o SortedSeq(S \ {m})

\* round(float(x), ndigits): the cells of the model are integers and the
\* medians are integers or halves, which ndigits >= 1 leaves unchanged
Round(x, ndigits) == x

---------------------------------------------------------------------------
(* Smoothing: pandas rolling(...).median() and scipy savgol_filter *)

Min(a, b) == IF a < b THEN a ELSE b
Max(a, b) == IF a > b THEN a ELSE b

\* the r-th smallest element of the non-empty sequence c (r in 1..Len(c))
Kth(c, r) ==
    CHOOSE x \in Range(c) :
        /\ Cardinality({j \in DOMAIN c : c[j] < x}) < r
        /\ Cardinality({j \in DOMAIN c : c[j] <= x}) >= r

\* median of a non-empty sequence of integers, as a decimal term
Median(c) ==
    LET k == Len(c)
    IN  IF k % 2 = 1 THEN <<"D", Kth(c, (k + 1) \div 2), 1>>
        ELSE LET s == Kth(c, k \div 2) + Kth(c, k \div 2 + 1)
             IN  IF s % 2 = 0 THEN <<"D", s \div 2, 1>> ELSE <<"D", s, 2>>

\* the window of position i (1-based) under center=True: pandas' fixed window
\* ends at i + (window - 1) // 2 and holds `window` positions, clipped to 1..n
WindowLo(i, window) == Max(1, i + (window - 1) \div 2 - window + 1)

WindowHi(i, window, n) == Min(n, i + (window - 1) \div 2)

\* variant: a trailing window (center=False), ending at the position itself
rolling_median_trailing(xs, window) ==
    [i \in 1..Len(xs) |-> Median(SubSeq(xs, Max(1, i - window + 1), i))]

\* pd.Series(xs).rolling(window=window, center=True, min_periods=1).median()
rolling_median(xs, window) ==
    [i \in 1..Len(xs) |->
        Median(SubSeq(xs, WindowLo(i, window), WindowHi(i, window, Len(xs))))]

\* savgol_filter(xs, window_length, polyorder) in its default mode "interp"
\* raises ValueError when the window is longer than the series or the
\* polynomial order is not below the window length
savgol_raises(xs, window_length, polyorder) ==
    window_length > Len(xs) \/ polyorder >= window_length

\* the filtered series: one value per input value, each a function of the
\* whole series, the position and the filter parameters
savgol_filter(xs, window_length, polyorder) ==
    [i \in 1..Len(xs) |-> <<"G", window_length, polyorder, xs, i>>]

---------------------------------------------------------------------------
(* EPICA: build_epica_rdf *)

CC_BY == URIRef("https://creativecommons.org/licenses/by/3.0/")
PANGAEA == Str("PANGAEA - Data Publisher for Earth & Environmental Science")

\* the smoothing named individuals, keyed by their parameters
smooth_median_uri(rw) == GEOLOD("RollingMedian_w" \o ToString(rw))

smooth_sg_uri(sgw, sgp) ==
    GEOLOD("SavitzkyGolay_w" \o ToString(sgw) \o "_p" \o ToString(sgp))

\* everything build_epica_rdf adds before its observation loops; day is the
\* pair of dates its two datetime.now() calls return
epica_metadata(day, rw, sgw, sgp) ==
    LET dataset == GEOLOD("EPICA_DomeC_Dataset")
        src_ch4 == URIRef("https://doi.org/10.1594/PANGAEA.472484")
        src_d18o == URIRef("https://doi.org/10.1594/PANGAEA.961024")
        catalog == GEOLOD("EPICA_DomeC_Catalog")
        ds_ch4 == GEOLOD("EPICA_DomeC_CH4_Dataset")
        ds_d18o == GEOLOD("EPICA_DomeC_d18O_Dataset")
        site == GEOLOD("EpicaDomeC_Site")
        geom == GEOLOD("EpicaDomeC_Geometry")
        core == GEOLOD("EpicaDomeC_IceCore")
        campaign == GEOLOD("EPICA_DomeCampaign_1996_2004")
        prop_ch4 == GEOLOD("CH4Concentration")
        prop_d18o == GEOLOD("Delta18O")
        chron_edc2 == GEOLOD("EDC2_Chronology")
        chron_aicc == GEOLOD("AICC2023_Chronology")
        smooth_median == smooth_median_uri(rw)
        smooth_sg == smooth_sg_uri(sgw, sgp)
        mtype_ch4 == GEOLOD("MeasurementType_CH4")
        mtype_d18o == GEOLOD("MeasurementType_d18O")
    IN  {   <<dataset, "rdf:type", URIRef("dcat:Dataset")>>,
            <<dataset, "dct:title", Str("EPICA Dome C Ice Core - CH4 and d18O Records")>>,
            <<dataset, "dct:description", Str("Methane (CH4) and stable water isotope (d18O) measurements ...")>>,
            <<dataset, "dct:license", CC_BY>>,
            <<dataset, "dct:publisher", PANGAEA>>,
            <<dataset, "dct:created", Date(day[1])>>,
            <<src_ch4, "rdf:type", URIRef("dct:BibliographicResource")>>,
            <<src_ch4, "dct:title", Str("EPICA Dome C Methane Record (Spahni & Stocker 2006)")>>,
            <<src_ch4, "dct:creator", Str("Spahni, R.; Stocker, T.F.")>>,
            <<src_ch4, "dct:date", Str("2006")>>,
            <<dataset, "dct:source", src_ch4>>,
            <<src_d18o, "rdf:type", URIRef("dct:BibliographicResource")>>,
            <<src_d18o, "dct:title", Str("EPICA Dome C d18O Record on AICC2023 (Bouchet et al. 2023)")>>,
            <<src_d18o, "dct:creator", Str("Bouchet, M. et al.")>>,
            <<src_d18o, "dct:date", Str("2023")>>,
            <<dataset, "dct:source", src_d18o>>,
            <<catalog, "rdf:type", URIRef("dcat:Catalog")>>,
            <<catalog, "rdfs:label", Str("EPICA Dome C Ice Core - Linked Data Catalogue")>>,
            <<catalog, "dct:title", Str("EPICA Dome C Ice Core - Linked Data Catalogue")>>,
            <<catalog, "dct:description", Str("DCAT catalogue aggregating palaeoclimate observation datasets ...")>>,
            <<catalog, "dct:publisher", PANGAEA>>,
            <<catalog, "dct:license", CC_BY>>,
            <<catalog, "dct:created", Date(day[2])>>,
            <<catalog, "dcat:dataset", dataset>>,
            <<ds_ch4, "rdf:type", URIRef("dcat:Dataset")>>,
            <<ds_ch4, "dct:title", Str("EPICA Dome C - Methane (CH4) Record")>>,
            <<ds_ch4, "dct:description", Str("CH4 concentration measurements ... on the EDC2 chronology")>>,
            <<ds_ch4, "dct:source", src_ch4>>,
            <<ds_ch4, "dct:license", CC_BY>>,
            <<ds_ch4, "dcat:distribution", src_ch4>>,
            <<catalog, "dcat:dataset", ds_ch4>>,
            <<ds_d18o, "rdf:type", URIRef("dcat:Dataset")>>,
            <<ds_d18o, "dct:title", Str("EPICA Dome C - Stable Water Isotope (d18O) Record")>>,
            <<ds_d18o, "dct:description", Str("d18O measurements ... on the AICC2023 chronology")>>,
            <<ds_d18o, "dct:source", src_d18o>>,
            <<ds_d18o, "dct:license", CC_BY>>,
            <<ds_d18o, "dcat:distribution", src_d18o>>,
            <<catalog, "dcat:dataset", ds_d18o>>,
            <<site, "rdf:type", URIRef("crm:E53_Place")>>,
            <<site, "rdf:type", URIRef("crm:E27_Site")>>,
            <<site, "rdfs:label", Str("EPICA Dome C, East Antarctica")>>,
            <<site, "crm:P87_is_identified_by", Str("75 06 S, 123 21 E")>>,
            <<geom, "rdf:type", URIRef("sf:Point")>>,
            <<geom, "geo:asWKT",
                WktLiteral(<<"POINT(", "123.35", " ", "-75.1", ")">>)>>,
            <<site, "geo:hasGeometry", geom>>,
            <<core, "rdf:type", URIRef("sosa:Sample")>>,
            <<core, "rdf:type", URIRef("crm:E22_Human-Made_Object")>>,
            <<core, "rdfs:label", Str("EPICA Dome C Ice Core")>>,
            <<core, "sosa:isSampleOf", site>>,
            <<core, "crm:P53_has_former_or_current_location", site>>,
            <<core, "crm:P2_has_type", Str("Ice Core")>>,
            <<campaign, "rdf:type", URIRef("crm:E7_Activity")>>,
            <<campaign, "rdf:type", URIRef("crmsci:S1_Matter_Removal")>>,
            <<campaign, "rdfs:label", Str("EPICA Dome C drilling campaign 1996-2004")>>,
            <<campaign, "crm:P7_took_place_at", site>>,
            <<campaign, "crm:P4_has_time-span", Str("1996/2004")>>,
            <<campaign, "crmsci:O1_removed", core>>,
            <<prop_ch4, "rdf:type", URIRef("sosa:ObservableProperty")>>,
            <<prop_ch4, "rdf:type", URIRef("crmsci:S9_Property_Type")>>,
            <<prop_ch4, "rdfs:label", Str("Methane concentration (CH4)")>>,
            <<prop_ch4, "qudt:unit", URIRef("unit:PPB")>>,
            <<prop_d18o, "rdf:type", URIRef("sosa:ObservableProperty")>>,
            <<prop_d18o, "rdf:type", URIRef("crmsci:S9_Property_Type")>>,
            <<prop_d18o, "rdfs:label", Str("Stable water isotope ratio (d18O)")>>,
            <<prop_d18o, "qudt:unit", URIRef("unit:PERMILLE")>>,
            <<chron_edc2, "rdf:type", URIRef("crmsci:S6_Data_Evaluation")>>,
            <<chron_edc2, "rdfs:label", Str("EDC2 ice core chronology (Schwander et al. 2001)")>>,
            <<chron_aicc, "rdf:type", URIRef("crmsci:S6_Data_Evaluation")>>,
            <<chron_aicc, "rdfs:label", Str("AICC2023 ice core chronology (Bouchet et al. 2023)")>>,
            <<smooth_median, "rdf:type", URIRef("crmsci:S6_Data_Evaluation")>>,
            <<smooth_median, "rdfs:label",
                Str("Rolling median filter, window=" \o ToString(rw) \o " pts")>>,
            <<smooth_median, "geolod:windowSize", Integer(rw)>>,
            <<smooth_median, "dct:references", URIRef("https://doi.org/10.1145/1968.1969")>>,
            <<smooth_sg, "rdf:type", URIRef("crmsci:S6_Data_Evaluation")>>,
            <<smooth_sg, "rdfs:label",
                Str("Savitzky-Golay filter, window=" \o ToString(sgw)
                    \o " pts, polyorder=" \o ToString(sgp))>>,
            <<smooth_sg, "geolod:windowSize", Integer(sgw)>>,
            <<smooth_sg, "geolod:polyOrder", Integer(sgp)>>,
            <<smooth_sg, "dct:references", URIRef("https://doi.org/10.1021/ac60214a047")>>,
            <<mtype_ch4, "rdf:type", GEOLOD("MeasurementType")>>,
            <<mtype_ch4, "rdfs:label", Str("Methane (CH4) measurement")>>,
            <<mtype_ch4, "rdfs:comment", Str("Indicates that this observation is a CH4 concentration measurement ...")>>,
            <<mtype_d18o, "rdf:type", GEOLOD("MeasurementType")>>,
            <<mtype_d18o, "rdfs:label", Str("d18O stable water isotope measurement")>>,
            <<mtype_d18o, "rdfs:comment", Str("Indicates that this observation is a stable water isotope ratio ...")>> }

\* df.dropna(subset=[value, age, depth_m]).reset_index(drop=True)
epica_valid(df) ==
    SelectIdx(df, [k \in DOMAIN df |->
        notna(df[k].value) /\ notna(df[k].age) /\ notna(df[k].depth_m)])

\* variant: the identifier leaves out the measured quantity
epica_obs_uri_index_only(kind, i) == GEOLOD("Obs_" \o Pad(i, 4))

\* the observation identifier minted for row index i (0-based) of a series
epica_obs_uri(kind, i) == GEOLOD("Obs_" \o kind \o "_" \o Pad(i, 4))

\* one pass of an observation loop of build_epica_rdf: the triples of the
\* row at 0-based index i of the valid table
epica_observation(kind, i, row, med, sg, rw, sgw, sgp) ==
    LET obs == epica_obs_uri(kind, i)
        ch4 == (kind = "CH4")
        nd == IF ch4 THEN 2 ELSE 5
        dataset == GEOLOD("EPICA_DomeC_Dataset")
    IN  {   <<obs, "rdfs:label",
                Str((IF ch4 THEN "CH4" ELSE "d18O") \o " observation " \o Pad(i, 4)
                    \o " (" \o ToString(Round(val(row.age), 1)) \o " ka BP)")>>,
            <<obs, "geolod:measurementType",
                GEOLOD(IF ch4 THEN "MeasurementType_CH4" ELSE "MeasurementType_d18O")>>,
            <<obs, "rdf:type", URIRef("sosa:Observation")>>,
            <<obs, "rdf:type", URIRef("crmsci:S4_Observation")>>,
            <<obs, "sosa:hasFeatureOfInterest", GEOLOD("EpicaDomeC_IceCore")>>,
            <<obs, "sosa:observedProperty",
                GEOLOD(IF ch4 THEN "CH4Concentration" ELSE "Delta18O")>>,
            <<obs, "sosa:hasSimpleResult", Decimal(Round(val(row.value), nd))>>,
            <<obs, "sosa:resultTime", Decimal(Round(val(row.age), 4))>>,
            <<obs, "geolod:atDepth_m", Decimal(Round(val(row.depth_m), 2))>>,
            <<obs, "geolod:ageChronology",
                GEOLOD(IF ch4 THEN "EDC2_Chronology" ELSE "AICC2023_Chronology")>>,
            <<obs, "qudt:unit", URIRef(IF ch4 THEN "unit:PPB" ELSE "unit:PERMILLE")>>,
            <<obs, "geolod:smoothedValue_rollingMedian", Round(med[i + 1], nd)>>,
            <<obs, "geolod:smoothedValue_savgol", Round(sg[i + 1], nd)>>,
            <<obs, "geolod:smoothingMethod_median", smooth_median_uri(rw)>>,
            <<obs, "geolod:smoothingMethod_savgol", smooth_sg_uri(sgw, sgp)>>,
            <<obs, "prov:wasDerivedFrom",
                URIRef(IF ch4 THEN "https://doi.org/10.1594/PANGAEA.472484"
                       ELSE "https://doi.org/10.1594/PANGAEA.961024")>>,
            <<obs, "crm:P7_took_place_at", GEOLOD("EpicaDomeC_Site")>>,
            <<dataset, "geolod:hasObservation", obs>>,
            <<GEOLOD(IF ch4 THEN "EPICA_DomeC_CH4_Dataset" ELSE "EPICA_DomeC_d18O_Dataset"),
                "dcat:record", obs>> }

\* variant: the loop misses the first row of the valid table
epica_observations_from_second(kind, valid, rw, sgw, sgp) ==
    LET xs == [k \in DOMAIN valid |-> val(valid[k].value)]
        med == rolling_median(xs, rw)
        sg == savgol_filter(xs, sgw, sgp)
    IN  UNION {epica_observation(kind, k - 1, valid[k], med, sg, rw, sgw, sgp) :
                  k \in DOMAIN valid \ {1}}

\* variant: the smoothed series are read from their far end
epica_observations_reversed(kind, valid, rw, sgw, sgp) ==
    LET xs == [k \in DOMAIN valid |-> val(valid[k].value)]
        med == rolling_median(xs, rw)
        sg == savgol_filter(xs, sgw, sgp)
        n == Len(xs)
    IN  UNION {epica_observation(kind, k - 1, valid[k],
                                 [j \in 1..n |-> med[n + 1 - j]],
                                 [j \in 1..n |-> sg[n + 1 - j]], rw, sgw, sgp) :
                  k \in DOMAIN valid}

\* the observation loop over one valid table
epica_observations(kind, valid, rw, sgw, sgp) ==
    LET xs == [k \in DOMAIN valid |-> val(valid[k].value)]
        med == rolling_median(xs, rw)
        sg == savgol_filter(xs, sgw, sgp)
    IN  UNION {epica_observation(kind, k - 1, valid[k], med, sg, rw, sgw, sgp) :
                  k \in DOMAIN valid}

\* build_epica_rdf(df_ch4, df_d18o): raised is TRUE when savgol_filter's
\* ValueError leaves the function (nothing catches it), g is the returned graph
build_epica_rdf(ch4, d18o, day, rw, sgw, sgp) ==
    LET ch4_valid == epica_valid(ch4)
        d18o_valid == epica_valid(d18o)
        xs_ch4 == [k \in DOMAIN ch4_valid |-> val(ch4_valid[k].value)]
        xs_d18o == [k \in DOMAIN d18o_valid |-> val(d18o_valid[k].value)]
    IN  IF savgol_raises(xs_ch4, sgw, sgp) \/ savgol_raises(xs_d18o, sgw, sgp)
        THEN [raised |-> TRUE, g |-> {}]
        ELSE [raised |-> FALSE,
              g |-> epica_metadata(day, rw, sgw, sgp)
                    \cup epica_observations("CH4", ch4_valid, rw, sgw, sgp)
                    \cup epica_observations("d18O", d18o_valid, rw, sgw, sgp)]

---------------------------------------------------------------------------
(* Geometry helpers of ontology/geo_lod_utils.py *)

CRS_WGS84 == "http://www.opengis.net/def/crs/EPSG/0/4326"

\* f"<{CRS_WGS84}> "
CrsPrefix == <<"<", CRS_WGS84, ">", " ">>

\* wkt_point(lon, lat) with the default precision of 6
wkt_point(lon, lat) == CrsPrefix \o <<"POINT(", Fmt6(lon), " ", Fmt6(lat), ")">>

RECURSIVE lstrip(_)
lstrip(text) ==
    IF text # <<>> /\ Head(text) = " " THEN lstrip(Tail(text)) ELSE text

RECURSIVE rstrip(_)
rstrip(text) ==
    IF text # <<>> /\ text[Len(text)] = " "
    THEN rstrip(SubSeq(text, 1, Len(text) - 1)) ELSE text

\* str.strip()
strip(text) == rstrip(lstrip(text))

\* str.startswith("<")
startswith_lt(text) == text # <<>> /\ Head(text) = "<"

\* variant: the prefix is prepended without looking at the text
_ensure_crs_always(wkt) == CrsPrefix \o strip(wkt)

\* _ensure_crs(wkt)
_ensure_crs(wkt) ==
    LET w == strip(wkt)
    IN  IF ~startswith_lt(w) THEN CrsPrefix \o w ELSE w

\* add_geo_site_from_wkt(g, site_uri, geom_uri, label, wkt, extra_types):
\* the triples it adds to g
add_geo_site_from_wkt(g, site_uri, geom_uri, label, wkt, extra_types) ==
    g \cup {<<site_uri, "rdf:type", URIRef("geo:Feature")>>,
            <<site_uri, "rdf:type", URIRef("crm:E53_Place")>>,
            <<site_uri, "rdf:type", URIRef("crm:E27_Site")>>}
      \cup {<<site_uri, "rdf:type", t>> : t \in extra_types}
      \cup {<<site_uri, "rdfs:label", Str(label)>>,
            <<site_uri, "geo:hasGeometry", geom_uri>>,
            <<geom_uri, "rdf:type", URIRef("sf:Point")>>,
            <<geom_uri, "geo:asWKT", WktLiteral(_ensure_crs(wkt))>>}

\* add_geo_site(g, site_uri, geom_uri, label, lon, lat, extra_types)
add_geo_site(g, site_uri, geom_uri, label, lon, lat, extra_types) ==
    g \cup {<<site_uri, "rdf:type", URIRef("geo:Feature")>>,
            <<site_uri, "rdf:type", URIRef("crm:E53_Place")>>,
            <<site_uri, "rdf:type", URIRef("crm:E27_Site")>>}
      \cup {<<site_uri, "rdf:type", t>> : t \in extra_types}
      \cup {<<site_uri, "rdfs:label", Str(label)>>,
            <<site_uri, "geo:hasGeometry", geom_uri>>,
            <<geom_uri, "rdf:type", URIRef("sf:Point")>>,
            <<geom_uri, "geo:asWKT", WktLiteral(wkt_point(lon, lat))>>}

\* variant: the member links the collection has already are dropped first
add_feature_collection_replacing(g, collection_uri, label, members) ==
    {t \in g : ~(t[1] = collection_uri /\ t[2] = "rdfs:member")}
    \cup {  <<collection_uri, "rdf:type", URIRef("geo:FeatureCollection")>>,
            <<collection_uri, "rdfs:label", Str(label)>> }
    \cup {<<collection_uri, "rdfs:member", members[k]>> : k \in DOMAIN members}

\* add_feature_collection(g, collection_uri, label, members): g after the
\* calls of g.add; members is the list of member URIs
add_feature_collection(g, collection_uri, label, members) ==
    g \cup {  <<collection_uri, "rdf:type", URIRef("geo:FeatureCollection")>>,
              <<collection_uri, "rdfs:label", Str(label)>> }
      \cup {<<collection_uri, "rdfs:member", members[k]>> : k \in DOMAIN members}

---------------------------------------------------------------------------
(* SISAL: build_sisal_rdf *)

SISALv3_DataSource == GEOLOD("SISALv3_DataSource")

\* variant: the identifier leaves out the site slug
sisal_obs_uri_without_slug(kind, site_slug, entity_id, total) ==
    GEOLOD("Obs_" \o kind \o "_e" \o ToString(entity_id) \o "_" \o Pad(total, 5))

\* variant: the identifier also carries the number of the run that minted it
sisal_obs_uri_per_run(kind, site_slug, entity_id, total) ==
    GEOLOD("Obs_" \o kind \o "_" \o site_slug \o "_e" \o ToString(entity_id)
           \o "_" \o Pad(total, 5) \o "_run" \o ToString(run))

\* the observation identifier minted from the property, the site slug, the
\* entity id and the running per-property counter of the cave
sisal_obs_uri(kind, site_slug, entity_id, total) ==
    GEOLOD("Obs_" \o kind \o "_" \o site_slug \o "_e" \o ToString(entity_id)
           \o "_" \o Pad(total, 5))

\* variant: only the cave is described, none of the shared individuals
sisal_metadata_cave_only(df, site_name, site_slug, rw, sgw, sgp) ==
    {   <<GEOLOD("Cave_" \o site_slug), "rdf:type", GEOLOD("Cave")>>,
        <<GEOLOD("Cave_" \o site_slug), "rdfs:label", Str(site_name)>>,
        <<GEOLOD("Cave_" \o site_slug), "geolod:siteId", Integer(df.site_id)>> }

\* variant: every cave describes smoothing individuals of its own
sisal_metadata_own_methods(df, site_name, site_slug, rw, sgw, sgp) ==
    LET smooth_median == GEOLOD("RollingMedian_w" \o ToString(rw) \o "_" \o site_slug)
        smooth_sg == GEOLOD("SavitzkyGolay_w" \o ToString(sgw) \o "_p" \o ToString(sgp)
                            \o "_" \o site_slug)
    IN  {   <<GEOLOD("Cave_" \o site_slug), "rdf:type", GEOLOD("Cave")>>,
            <<smooth_median, "rdf:type", GEOLOD("RollingMedianFilter")>>,
            <<smooth_median, "geolod:windowSize", Integer(rw)>>,
            <<smooth_sg, "rdf:type", GEOLOD("SavitzkyGolayFilter")>>,
            <<smooth_sg, "geolod:windowSize", Integer(sgw)>>,
            <<smooth_sg, "geolod:polyOrder", Integer(sgp)>> }

\* what build_sisal_rdf adds before its loop over the entities
sisal_metadata(df, site_name, site_slug, rw, sgw, sgp) ==
    LET cave == GEOLOD("Cave_" \o site_slug)
        geom == GEOLOD("Cave_" \o site_slug \o "_Geometry")
        smooth_median == smooth_median_uri(rw)
        smooth_sg == smooth_sg_uri(sgw, sgp)
        mtype_d18o == GEOLOD("MeasurementType_d18O")
        mtype_d13c == GEOLOD("MeasurementType_d13C")
        prop_d18o == GEOLOD("Delta18O_Speleothem")
        prop_d13c == GEOLOD("Delta13C_Speleothem")
        chron == GEOLOD("UThChronology_" \o site_slug)
    IN  {   <<cave, "rdf:type", GEOLOD("Cave")>>,
            <<cave, "rdfs:label", Str(site_name)>>,
            <<cave, "geolod:siteId", Integer(df.site_id)>> }
        \cup
        (IF notna(df.latitude) /\ notna(df.longitude)
         THEN { <<geom, "rdf:type", URIRef("sf:Point")>>,
                <<geom, "geo:asWKT",
                    WktLiteral(CrsPrefix \o <<"POINT(", Fmt6(val(df.longitude)), " ",
                                               Fmt6(val(df.latitude)), ")">>)>>,
                <<cave, "geo:hasGeometry", geom>> }
         ELSE {})
        \cup
        {   <<smooth_median, "rdf:type", GEOLOD("RollingMedianFilter")>>,
            <<smooth_median, "geolod:windowSize", Integer(rw)>>,
            <<smooth_sg, "rdf:type", GEOLOD("SavitzkyGolayFilter")>>,
            <<smooth_sg, "geolod:windowSize", Integer(sgw)>>,
            <<smooth_sg, "geolod:polyOrder", Integer(sgp)>>,
            <<mtype_d18o, "rdf:type", GEOLOD("MeasurementType")>>,
            <<mtype_d18o, "rdfs:label", Str("delta-18O Measurement")>>,
            <<mtype_d13c, "rdf:type", GEOLOD("MeasurementType")>>,
            <<mtype_d13c, "rdfs:label", Str("delta-13C Measurement")>>,
            <<prop_d18o, "rdf:type", GEOLOD("Delta18OProperty")>>,
            <<prop_d18o, "rdfs:label", Str("delta-18O (speleothem)")>>,
            <<prop_d13c, "rdf:type", GEOLOD("Delta13CProperty")>>,
            <<prop_d13c, "rdfs:label", Str("delta-13C (speleothem)")>>,
            <<chron, "rdf:type", GEOLOD("UThChronology")>>,
            <<chron, "rdfs:label", Str("U-Th Chronology - " \o site_name)>>,
            <<chron, "rdfs:comment", Str("Standardised SISAL chronology ...")>> }

\* the measured cell of a row for a property
sisal_cell(kind, row) == IF kind = "d18O" THEN row.d18o_permille ELSE row.d13c_permille

\* grp[grp[value].notna() & grp["age_ka"].notna()]
sisal_valid(kind, grp) ==
    SelectIdx(grp, [k \in DOMAIN grp |->
        notna(sisal_cell(kind, grp[k])) /\ notna(grp[k].age_ka)])

\* one pass of an observation loop of build_sisal_rdf: row is the i-th
\* (1-based) row of the valid sub-table, total the counter before the pass;
\* sg is <<>> when savgol_filter raised and the series is [None] * len; the
\* guard pd.notna(med[i]) always holds, min_periods=1 leaving no window empty
sisal_observation(kind, site_slug, entity_id, total, i, row, med, sg, rw, sgw, sgp) ==
    LET obs == sisal_obs_uri(kind, site_slug, entity_id, total)
        d18o == (kind = "d18O")
    IN  {   <<obs, "rdf:type",
                GEOLOD(IF d18o THEN "Delta18OSpeleothemObservation"
                       ELSE "Delta13CSpeleothemObservation")>>,
            <<obs, "sosa:hasFeatureOfInterest",
                GEOLOD("Speleothem_" \o site_slug \o "_e" \o ToString(entity_id))>>,
            <<obs, "sosa:observedProperty",
                GEOLOD(IF d18o THEN "Delta18O_Speleothem" ELSE "Delta13C_Speleothem")>>,
            <<obs, "geolod:measurementType",
                GEOLOD(IF d18o THEN "MeasurementType_d18O" ELSE "MeasurementType_d13C")>>,
            <<obs, "geolod:ageKaBP", Decimal(Round(val(row.age_ka), 4))>>,
            <<obs, "geolod:measuredValue", Decimal(Round(val(sisal_cell(kind, row)), 4))>> }
        \cup
        (IF notna(row.depth_sample)
         THEN {<<obs, "geolod:atDepth_mm", Decimal(Round(val(row.depth_sample), 3))>>}
         ELSE {})
        \cup
        {   <<obs, "geolod:ageChronologySpeleothem", GEOLOD("UThChronology_" \o site_slug)>>,
            <<obs, "geolod:smoothedValue_rollingMedian", Round(med[i], 4)>>,
            <<obs, "geolod:smoothingMethod_median", smooth_median_uri(rw)>> }
        \cup
        (IF sg # <<>>
         THEN {<<obs, "geolod:smoothedValue_savgol", Round(sg[i], 4)>>,
               <<obs, "geolod:smoothingMethod_savgol", smooth_sg_uri(sgw, sgp)>>}
         ELSE {})
        \cup
        {   <<obs, "prov:wasDerivedFrom", SISALv3_DataSource>> }

\* variant: the Savitzky-Golay method link is added whether or not the filter
\* gave a value
sisal_series_method_always(kind, site_slug, entity_id, total, sub, rw, sgw, sgp) ==
    IF sub = <<>> THEN {}
    ELSE LET vals == [k \in DOMAIN sub |-> val(sisal_cell(kind, sub[k]))]
             med == rolling_median(vals, rw)
             sg == IF savgol_raises(vals, sgw, sgp) THEN <<>>
                   ELSE savgol_filter(vals, sgw, sgp)
         IN  UNION {sisal_observation(kind, site_slug, entity_id, total + i - 1, i,
                                      sub[i], med, sg, rw, sgw, sgp)
                    \cup {<<sisal_obs_uri(kind, site_slug, entity_id, total + i - 1),
                            "geolod:smoothingMethod_savgol", smooth_sg_uri(sgw, sgp)>>}
                    : i \in DOMAIN sub}

\* variant: the loop leaves out the link to the data source
sisal_series_without_source(kind, site_slug, entity_id, total, sub, rw, sgw, sgp) ==
    IF sub = <<>> THEN {}
    ELSE LET vals == [k \in DOMAIN sub |-> val(sisal_cell(kind, sub[k]))]
             med == rolling_median(vals, rw)
             sg == IF savgol_raises(vals, sgw, sgp) THEN <<>>
                   ELSE savgol_filter(vals, sgw, sgp)
             g == UNION {sisal_observation(kind, site_slug, entity_id, total + i - 1, i,
                                           sub[i], med, sg, rw, sgw, sgp) : i \in DOMAIN sub}
         IN  {t \in g : t[2] # "prov:wasDerivedFrom"}

\* the d18O or d13C block of one entity: smoothing of the valid sub-table,
\* then the loop; total is the counter on entry
sisal_series(kind, site_slug, entity_id, total, sub, rw, sgw, sgp) ==
    IF sub = <<>> THEN {}
    ELSE LET vals == [k \in DOMAIN sub |-> val(sisal_cell(kind, sub[k]))]
             med == rolling_median(vals, rw)
             sg == IF savgol_raises(vals, sgw, sgp) THEN <<>>
                   ELSE savgol_filter(vals, sgw, sgp)
         IN  UNION {sisal_observation(kind, site_slug, entity_id, total + i - 1, i,
                                      sub[i], med, sg, rw, sgw, sgp) : i \in DOMAIN sub}

RECURSIVE sisal_entities(_, _, _, _, _, _, _, _, _)
\* the loop "for entity_id, grp in df.groupby('entity_id')" over the remaining
\* entity ids ents, with the counters obs_d18o_total and obs_d13c_total
sisal_entities(rows, ents, obs_d18o_total, obs_d13c_total, site_name, site_slug, rw, sgw, sgp) ==
    IF ents = <<>> THEN {}
    ELSE LET entity_id == Head(ents)
             grp == SelectIdx(rows, [k \in DOMAIN rows |-> rows[k].entity_id = entity_id])
             speleothem == GEOLOD("Speleothem_" \o site_slug \o "_e" \o ToString(entity_id))
             sub18 == sisal_valid("d18O", grp)
             sub13 == sisal_valid("d13C", grp)
         IN  {   <<speleothem, "rdf:type", GEOLOD("Speleothem")>>,
                 <<speleothem, "rdfs:label", Str(site_name \o " - " \o grp[1].entity_name)>>,
                 <<speleothem, "geolod:entityId", Integer(entity_id)>>,
                 <<speleothem, "geolod:collectedFrom", GEOLOD("Cave_" \o site_slug)>> }
             \cup sisal_series("d18O", site_slug, entity_id, obs_d18o_total, sub18,
                               rw, sgw, sgp)
             \cup sisal_series("d13C", site_slug, entity_id, obs_d13c_total, sub13,
                               rw, sgw, sgp)
             \cup sisal_entities(rows, Tail(ents), obs_d18o_total + Len(sub18),
                                 obs_d13c_total + Len(sub13), site_name, site_slug,
                                 rw, sgw, sgp)

\* variant: the Observations of every cave reference one shared chronology
build_sisal_rdf_shared_chronology(df, site_name, site_slug, rw, sgw, sgp) ==
    LET g == sisal_metadata(df, site_name, site_slug, rw, sgw, sgp)
             \cup sisal_entities(df.rows,
                                 SortedSeq({df.rows[k].entity_id : k \in DOMAIN df.rows}),
                                 0, 0, site_name, site_slug, rw, sgw, sgp)
    IN  {<<t[1], t[2], IF t[2] = "geolod:ageChronologySpeleothem"
                       THEN GEOLOD("UThChronology_SISAL") ELSE t[3]>> : t \in g}

\* build_sisal_rdf(df, site_name, site_slug): the returned graph
build_sisal_rdf(df, site_name, site_slug, rw, sgw, sgp) ==
    sisal_metadata(df, site_name, site_slug, rw, sgw, sgp)
    \cup sisal_entities(df.rows, SortedSeq({df.rows[k].entity_id : k \in DOMAIN df.rows}),
                        0, 0, site_name, site_slug, rw, sgw, sgp)

---------------------------------------------------------------------------
(* SISAL: build_sisal_sites_rdf *)

\* the triples of one row of the sites table
sisal_site(row) ==
    LET slug == "site_" \o Pad(row.site_id, 4)
        cave == GEOLOD("Cave_" \o slug)
        geom == GEOLOD("Cave_" \o slug \o "_Geometry")
        w == strip(row.wkt)
        wkt == IF ~startswith_lt(w) THEN CrsPrefix \o w ELSE w
    IN  {   <<cave, "rdf:type", GEOLOD("Cave")>>,
            <<cave, "rdfs:label", Str(row.site_name)>>,
            <<cave, "geolod:siteId", Integer(row.site_id)>>,
            <<cave, "geolod:countD18OSamples", Integer(row.n_d18o_samples)>>,
            <<cave, "geolod:countD13CSamples", Integer(row.n_d13c_samples)>>,
            <<cave, "prov:wasDerivedFrom", SISALv3_DataSource>>,
            <<geom, "rdf:type", URIRef("sf:Point")>>,
            <<geom, "geo:asWKT", WktLiteral(wkt)>>,
            <<cave, "geo:hasGeometry", geom>> }

\* build_sisal_sites_rdf(df_sites): the returned graph
build_sisal_sites_rdf(sites) ==
    LET cave_uris == [k \in DOMAIN sites |->
                         GEOLOD("Cave_site_" \o Pad(sites[k].site_id, 4))]
        collection == GEOLOD("SISAL_Cave_Collection")
        global_collection == GEOLOD("AllPalaeoclimateSites_Collection")
    IN  UNION {sisal_site(sites[k]) : k \in DOMAIN sites}
        \cup {  <<collection, "rdf:type", URIRef("geo:FeatureCollection")>>,
                <<collection, "rdfs:label", Str("SISAL Cave Sites Collection")>> }
        \cup {<<collection, "rdfs:member", cave_uris[k]>> : k \in DOMAIN cave_uris}
        \cup {  <<global_collection, "rdf:type", URIRef("geo:FeatureCollection")>>,
                <<global_collection, "rdfs:label", Str("All Palaeoclimate Sites Collection")>>,
                <<global_collection, "rdfs:comment",
                    Str("Combined collection of all palaeoclimate sampling locations ...")>> }
        \cup {<<global_collection, "rdfs:member", cave_uris[k]>> : k \in DOMAIN cave_uris}

---------------------------------------------------------------------------
(* Inputs *)

\* the smoothing globals of a run: the values of the scripts, or the
\* three-point windows of the specification's worked example
Params ==
    { [rw |-> ROLLING_WINDOW, sgw |-> SG_WINDOW, sgp |-> SG_POLYORDER],
      [rw |-> 3, sgw |-> 3, sgp |-> 2] }

\* the measured value written in line i of an input file
Value(i) == CASE i % 5 = 1 -> 100 [] i % 5 = 2 -> 110 [] i % 5 = 3 -> 105
              [] i % 5 = 4 -> 120 [] OTHER -> 115

\* the data lines of an EPICA .tab file: n lines at depths 10, 20, ... with
\* ages 1, 2, ... in ka; in line `hole` (0: none) the column `missing` is not
\* numeric; `descending` files list the deepest line first
EpicaFile(n, hole, missing, descending) ==
    LET line(i) ==
            [depth_m |-> IF i = hole /\ missing = "depth_m" THEN NaN ELSE Num(10 * i),
             age     |-> IF i = hole /\ missing = "age" THEN NaN ELSE Num(i),
             value   |-> IF i = hole /\ missing = "value" THEN NaN ELSE Num(Value(i))]
    IN  [k \in 1..n |-> line(IF descending THEN n + 1 - k ELSE k)]

\* the lengths of the input files of a run whose Savitzky-Golay window is
\* sgw: short ones, and ones that fill a window longer than those
FileLengths(sgw) ==
    (1..MaxRows) \cup (IF sgw > MaxRows THEN {sgw, sgw + 1} ELSE {})

\* the files of a run, of the lengths `lengths`: complete ones, and ones with a
\* hole in one of the columns `kinds`, at one of the line numbers `holes`
EpicaFiles(lengths, kinds, holes) ==
    {EpicaFile(n, 0, "age", d) : n \in lengths, d \in BOOLEAN}
    \cup {EpicaFile(h[1], h[2], m, d) :
             h \in {x \in lengths \X holes : x[2] <= x[1]},
             m \in kinds, d \in BOOLEAN}

RECURSIVE InsertSorted(_, _, _)
\* row inserted into the table df, which is sorted by the numeric column
InsertSorted(df, row, column) ==
    IF df = <<>> THEN <<row>>
    ELSE IF val(row[column]) < val(Head(df)[column]) THEN <<row>> \o df
         ELSE <<Head(df)>> \o InsertSorted(Tail(df), row, column)

RECURSIVE sort_values(_, _)
\* df.sort_values(column).reset_index(drop=True)
sort_values(df, column) ==
    IF df = <<>> THEN <<>>
    ELSE InsertSorted(sort_values(SubSeq(df, 1, Len(df) - 1), column),
                      df[Len(df)], column)

\* load_ch4_tab / load_d18o_tab: rows without depth or measured value are
\* dropped, the rest sorted by depth
load_tab(lines) ==
    sort_values(SelectIdx(lines, [k \in DOMAIN lines |->
                    notna(lines[k].depth_m) /\ notna(lines[k].value)]), "depth_m")

\* the rows of a SISAL per-cave CSV file: n samples of ages 1, 2, ... ka; with
\* two entities the samples alternate between them and the file lists entity 1
\* first; d13C is not measured on the third sample, the depth not on every
\* fourth; in line `hole` (0: none) the column `missing` is empty
SisalSample(i, entities, hole, missing) ==
    [entity_id     |-> IF entities = 1 THEN 1 ELSE 2 - (i % 2),
     entity_name   |-> IF entities = 1 \/ i % 2 = 1 THEN "A" ELSE "B",
     age_ka        |-> IF i = hole /\ missing = "age_ka" THEN NaN ELSE Num(i),
     d18o_permille |-> IF i = hole /\ missing = "d18o_permille" THEN NaN
                       ELSE Num(Value(i)),
     d13c_permille |-> IF i = 3 THEN NaN ELSE Num(Value(i) + 1),
     depth_sample  |-> IF i % 4 = 0 THEN NaN ELSE Num(10 * i)]

SisalFileRows(n, entities, hole, missing) ==
    LET order == IF entities = 1 THEN [k \in 1..n |-> k]
                 ELSE SortedSeq({i \in 1..n : i % 2 = 1})
                      \o SortedSeq({i \in 1..n : i % 2 = 0})
    IN  [k \in 1..n |-> SisalSample(order[k], entities, hole, missing)]

\* the shapes <<n, entities, hole, missing>> of the per-cave files of one
\* run: complete files, files whose first line has no age, files whose
\* second line has no d18O value
SisalShapes(sgw) ==
    {<<n, e, 0, "age_ka">> : n \in FileLengths(sgw), e \in 1..2}
    \cup {<<n, e, 1, "age_ka">> : n \in FileLengths(sgw), e \in 1..2}
    \cup {<<n, e, 2, "d18o_permille">> : n \in FileLengths(sgw) \ {1}, e \in 1..2}

\* SISAL_FILES of main(): the configured caves (d13c_ticks: ticks for d13C
\* plots are configured), with the site id and the coordinates their files
\* carry (<<>>: no latitude / longitude column)
SISAL_FILES ==
    << [slug |-> "144_botuvera", site_id |-> 144, site_name |-> "Botuvera", d13c_ticks |-> TRUE,
        latitude |-> Num(-27223300), longitude |-> Num(-49155600)],
       [slug |-> "145_corchia", site_id |-> 145, site_name |-> "Corchia", d13c_ticks |-> TRUE,
        latitude |-> NaN, longitude |-> NaN],
       [slug |-> "140_sanbao", site_id |-> 140, site_name |-> "Sanbao", d13c_ticks |-> FALSE,
        latitude |-> Num(31667000), longitude |-> Num(110433300)],
       [slug |-> "275_buracagloriosa", site_id |-> 275, site_name |-> "Buraca Gloriosa",
        d13c_ticks |-> TRUE,
        latitude |-> NaN, longitude |-> Num(-8783300)] >>

\* the configured caves whose file exists: the first j of them, or every
\* other one
FoundSets ==
    {1..j : j \in 0..Len(SISAL_FILES)} \cup {{1, 3}, {2, 4}}

\* load_sisal_csv: rows without an age are dropped, the rest sorted by age
load_sisal_csv(cfg, lines) ==
    [site_id |-> cfg.site_id, site_name |-> cfg.site_name,
     latitude |-> cfg.latitude, longitude |-> cfg.longitude,
     rows |-> sort_values(SelectIdx(lines, [k \in DOMAIN lines |->
                              notna(lines[k].age_ka)]), "age_ka")]

\* the WKT column of row k of the sites file: bare, CRS-tagged, bare with
\* surrounding blanks
SiteWkt(k) ==
    CASE k % 3 = 1 -> <<"POINT(", "31.9333", " ", "41.4167", ")">>
      [] k % 3 = 2 -> CrsPrefix \o <<"POINT(", "10.0", " ", "20.0", ")">>
      [] OTHER -> <<" ", "POINT(", "0", " ", "0", ")", " ">>

\* the loaded sites table of m rows (sorted by site id); site 144 is the
\* cave of the first configured file
SitesTable(m) ==
    [k \in 1..m |->
        [site_id |-> IF k = MaxSites THEN 144 ELSE k,
         site_name |-> "Site " \o ToString(k),
         wkt |-> SiteWkt(k), n_d18o_samples |-> 10 * k, n_d13c_samples |-> k]]

\* the tokens of the WKT texts handed to the geometry helpers
Alphabet == {" ", "<", ">", CRS_WGS84, "POINT(0 0)"}

Texts == UNION {[1..n -> Alphabet] : n \in 0..MaxLen}

\* coordinates in millionths of a degree
Coords == {-75100000, 0, 123350000}

---------------------------------------------------------------------------
(* rdflib Graph.add and the merge loops of export_sisal_rdf *)

\* variant: the target is replaced by the graph instead of added to
merge_replace(target, g) == g

\* "for triple in g: combined.add(triple)": Graph.add on a triple the store
\* holds already changes nothing
merge(target, g) == target \cup g

\* variant: the loop ends after the first graph
merge_all_first_only(target, graphs) ==
    IF graphs = <<>> THEN target ELSE target \cup Head(graphs)

RECURSIVE merge_all(_, _)
\* the merge loops over a sequence of graphs, in order
merge_all(target, graphs) ==
    IF graphs = <<>> THEN target
    ELSE merge_all(merge(target, Head(graphs)), Tail(graphs))

---------------------------------------------------------------------------
(* Namespace bindings: the NS registry, get_graph, rdflib Graph() and bind *)

\* NS of geo_lod_utils: the registry of prefixes
NS ==
    [prefix \in {"rdf", "rdfs", "owl", "xsd", "geo", "sf", "crm", "crmsci", "sosa", "ssn",
                 "qudt", "unit", "prov", "dct", "dcat", "void", "skos", "geolod"} |->
        CASE prefix = "rdf" -> "http://www.w3.org/1999/02/22-rdf-syntax-ns#"
          [] prefix = "rdfs" -> "http://www.w3.org/2000/01/rdf-schema#"
          [] prefix = "owl" -> "http://www.w3.org/2002/07/owl#"
          [] prefix = "xsd" -> "http://www.w3.org/2001/XMLSchema#"
          [] prefix = "geo" -> "http://www.opengis.net/ont/geosparql#"
          [] prefix = "sf" -> "http://www.opengis.net/ont/sf#"
          [] prefix = "crm" -> "http://www.cidoc-crm.org/cidoc-crm/"
          [] prefix = "crmsci" -> "http://www.ics.forth.gr/isl/CRMsci/"
          [] prefix = "sosa" -> "http://www.w3.org/ns/sosa/"
          [] prefix = "ssn" -> "http://www.w3.org/ns/ssn/"
          [] prefix = "qudt" -> "http://qudt.org/schema/qudt/"
          [] prefix = "unit" -> "http://qudt.org/vocab/unit/"
          [] prefix = "prov" -> "http://www.w3.org/ns/prov#"
          [] prefix = "dct" -> "http://purl.org/dc/terms/"
          [] prefix = "dcat" -> "http://www.w3.org/ns/dcat#"
          [] prefix = "void" -> "http://rdfs.org/ns/void#"
          [] prefix = "skos" -> "http://www.w3.org/2004/02/skos/core#"
          [] OTHER -> "http://w3id.org/geo-lod/"]

NoBindings == [prefix \in {} |-> ""]

\* rdflib Graph(): the prefixes a new graph has bound.  Which they are is the
\* library's choice, not the scripts': the core ones (xml, rdf, rdfs, xsd,
\* owl), or with them the namespaces rdflib ships, of which those are listed
\* that share a prefix or a URI with the registry
Graph(mode) ==
    LET core == ("xml" :> "http://www.w3.org/XML/1998/namespace")
                @@ [prefix \in {"rdf", "rdfs", "xsd", "owl"} |-> NS[prefix]]
    IN  IF mode = "core" THEN core
        ELSE core @@ ("dcterms" :> NS["dct"])
                  @@ [prefix \in {"geo", "sosa", "ssn", "prov", "dcat", "void", "skos"}
                         |-> NS[prefix]]

\* Graph.bind(prefix, namespace) with its defaults override=True,
\* replace=False: a namespace bound under another prefix moves to the new
\* prefix; a prefix held by another namespace is kept and the new binding
\* gets a numbered prefix
bind(b, prefix, uri) ==
    IF prefix \in DOMAIN b /\ b[prefix] = uri THEN b
    ELSE IF prefix \in DOMAIN b THEN ((prefix \o "1") :> uri) @@ b
    ELSE LET kept == {q \in DOMAIN b : b[q] # uri}
         IN  (prefix :> uri) @@ [q \in kept |-> b[q]]

RECURSIVE bind_all(_, _, _)
\* successive g.bind calls for the prefixes in order, each to uris[prefix]
bind_all(b, prefixes, uris) ==
    IF prefixes = <<>> THEN b
    ELSE bind_all(bind(b, Head(prefixes), uris[Head(prefixes)]), Tail(prefixes), uris)

\* get_graph(): a fresh graph with every prefix of NS bound
get_graph(mode) ==
    bind_all(Graph(mode),
             <<"rdf", "rdfs", "owl", "xsd", "geo", "sf", "crm", "crmsci", "sosa", "ssn",
               "qudt", "unit", "prov", "dct", "dcat", "void", "skos", "geolod">>, NS)

\* the g = Graph() and the thirteen g.bind calls of build_epica_rdf
epica_graph(mode) ==
    bind_all(Graph(mode),
             <<"geolod", "sosa", "ssn", "geo", "sf", "qudt", "unit", "crm", "crmsci",
               "dct", "dcat", "prov", "xsd">>, NS)

---------------------------------------------------------------------------
(* Plotting: create_plot and the plot lists of the two scripts *)

RECURSIVE create_plots(_, _, _)
\* the loop "for cfg in plots: create_plot(...)": the files saved before the
\* first call that raises.  create_plot raises ValueError on an empty series
\* (set_ylim of NaN limits) and, with use_savgol, when savgol_filter does
create_plots(cfgs, sgw, sgp) ==
    IF cfgs = <<>> THEN [raised |-> FALSE, written |-> {}]
    ELSE LET cfg == Head(cfgs)
         IN  IF cfg.x = <<>> \/ (cfg.use_savgol /\ savgol_raises(cfg.x, sgw, sgp))
             THEN [raised |-> TRUE, written |-> {}]
             ELSE LET rest == create_plots(Tail(cfgs), sgw, sgp)
                  IN  [raised |-> rest.raised,
                       written |-> {cfg.filename} \cup rest.written]

\* the labels of the three variants of a plot: unsmoothed, rolling median,
\* Savitzky-Golay
smooth_label(rw) == "smooth" \o ToString(rw)

savgol_label(sgw, sgp) == "savgol" \o ToString(sgw) \o "p" \o ToString(sgp)

\* the list `plots` of EPICA main(): per variant CH4 by depth, d18O by depth,
\* CH4 by age, d18O by age, each over the rows where both axes are numeric
epica_plot_configs(ch4, d18o, rw, sgw, sgp) ==
    LET series(df, y) ==
            LET rows == SelectIdx(df, [k \in DOMAIN df |->
                            notna(df[k][y]) /\ notna(df[k].value)])
            IN  [k \in DOMAIN rows |-> val(rows[k].value)]
        block(suffix, savgol) ==
            << [filename |-> "ch4_vs_depth_full" \o suffix,
                x |-> series(ch4, "depth_m"), use_savgol |-> savgol],
               [filename |-> "d18o_vs_depth_full" \o suffix,
                x |-> series(d18o, "depth_m"), use_savgol |-> savgol],
               [filename |-> "ch4_vs_age_ka_full" \o suffix,
                x |-> series(ch4, "age"), use_savgol |-> savgol],
               [filename |-> "d18o_vs_age_ka_full" \o suffix,
                x |-> series(d18o, "age"), use_savgol |-> savgol] >>
    IN  block("", FALSE) \o block("_" \o smooth_label(rw), FALSE)
        \o block("_" \o savgol_label(sgw, sgp), TRUE)

\* the list `plots` of generate_cave_plots(df, site_name, site_slug, ...):
\* three d18O plots unless the cave has no d18O row, three d13C plots unless
\* no d13C ticks are configured or the cave has no d13C row
cave_plot_configs(df, site_slug, d13c_ticks, rw, sgw, sgp) ==
    LET series(kind) ==
            LET rows == sisal_valid(kind, df.rows)
            IN  [k \in DOMAIN rows |-> val(sisal_cell(kind, rows[k]))]
        labels == <<"unsmoothed", smooth_label(rw), savgol_label(sgw, sgp)>>
        block(kind, name) ==
            [j \in 1..3 |-> [filename |-> site_slug \o "_" \o name \o "_age_" \o labels[j],
                             x |-> series(kind), use_savgol |-> j = 3]]
    IN  (IF series("d18O") = <<>> THEN <<>> ELSE block("d18O", "d18o"))
        \o (IF ~d13c_ticks \/ series("d13C") = <<>> THEN <<>> ELSE block("d13C", "d13c"))

---------------------------------------------------------------------------
(* Files written beside the data graphs *)

NoFiles == [name \in {} |-> <<>>]

\* export_ontology(): the ontology text, into which the dates of two
\* datetime.now() calls and the smoothing globals are interpolated, and the two
\* diagrams of export_mermaid()
export_ontology(clock, rw, sgw, sgp) ==
    ("epica_ontology.ttl" :> <<"owl_ttl", clock[1], clock[2], rw, sgw, sgp>>)
    @@ ("epica_diagram1_taxonomy.mermaid" :> <<"d1">>)
    @@ ("epica_diagram2_instance.mermaid" :> <<"d2", rw, sgw, sgp>>)

\* write_geo_lod_core(outdir): the constant text GEO_LOD_CORE_TTL
write_geo_lod_core == "geo_lod_core.ttl" :> <<"GEO_LOD_CORE_TTL">>

\* write_mermaid(outdir, rolling_window, sg_window, sg_poly, n_sisal_sites)
write_mermaid(rw, sgw, sgp, n_sisal_sites) ==
    ("mermaid_taxonomy.mermaid" :> <<"MERMAID_TAXONOMY">>)
    @@ ("mermaid_instance_epica.mermaid" :> <<"_mermaid_instance_epica", rw, sgw, sgp>>)
    @@ ("mermaid_instance_sisal.mermaid" :> <<"_mermaid_instance_sisal", n_sisal_sites>>)

\* the files whose content is a serialised data graph
DataGraphFiles(dir) == {name \in DOMAIN dir : dir[name][1] = "turtle"}

\* export_rdf after build_epica_rdf returned or raised (r): the graph is
\* serialised and export_ontology() called
serialize_epica(r, clock, rw, sgw, sgp) ==
    [raised |-> r.raised, built |-> ~r.raised, g |-> r.g,
     written |-> IF r.raised THEN NoFiles
                 ELSE ("epica_dome_c.ttl" :> <<"turtle", "g_epica">>)
                      @@ export_ontology(<<clock[3], clock[4]>>, rw, sgw, sgp)]

\* variant: the graph is built whether or not rdflib was imported
export_rdf_unguarded(ch4, d18o, available, clock, rw, sgw, sgp) ==
    CHOOSE x \in {serialize_epica(r, clock, rw, sgw, sgp) :
                     r \in {build_epica_rdf(ch4, d18o, <<clock[1], clock[2]>>,
                                            rw, sgw, sgp)}} : TRUE

\* export_rdf(df_ch4, df_d18o): nothing without rdflib; else the graph is
\* built (clock[1], clock[2] are its two clock reads), serialised, and
\* export_ontology() is called (clock[3], clock[4]).  raised: the exception of
\* build_epica_rdf leaves export_rdf
export_rdf(ch4, d18o, available, clock, rw, sgw, sgp) ==
    IF ~available
    THEN [raised |-> FALSE, built |-> FALSE, g |-> {}, written |-> NoFiles]
    ELSE CHOOSE x \in {serialize_epica(r, clock, rw, sgw, sgp) :
                          r \in {build_epica_rdf(ch4, d18o, <<clock[1], clock[2]>>,
                                                 rw, sgw, sgp)}} : TRUE

\* the dates four consecutive datetime.now() calls of one export can return,
\* none before day `from`: the clock does not run backwards and an export
\* passes midnight at most once
Clocks(from) ==
    {c \in [1..4 -> 1..MaxDay] :
        /\ from <= c[1] /\ c[1] <= c[2] /\ c[2] <= c[3] /\ c[3] <= c[4]
        /\ c[4] <= c[1] + 1}

---------------------------------------------------------------------------
(* main.py *)

\* the flags of main.py that its help text gives a meaning for the outputs
Flags == {"--epica-only", "--sisal-only", "--no-plots", "--no-rdf"}

\* variant: a script that exists is started whatever the flags
run_step_ignoring_flags(a, ex, name) == ex[name]

\* variant: the SISAL step is skipped once the EPICA step has failed
run_step_stopping_on_failure(a, ex, name) ==
    IF name = "epica" THEN "--sisal-only" \notin a /\ ex["epica"]
    ELSE "--epica-only" \notin a /\ ex["sisal"]
         /\ ("epica" \notin Range(launched) \/ success["epica"])

\* the conditions under which main() calls run_script for a script
run_step(a, ex, name) ==
    IF name = "epica" THEN "--sisal-only" \notin a /\ ex["epica"]
    ELSE "--epica-only" \notin a /\ ex["sisal"]

\* what a started script can do.  run_script starts it without arguments and
\* the scripts read none, so the outcomes are those of their main(): plots and
\* RDF; plots only when rdflib is missing; an exception before or after some
\* plots were saved, which ends the process with a non-zero status
ScriptOutcomes ==
    { [ok |-> TRUE, outputs |-> {"plots", "rdf"}],
      [ok |-> TRUE, outputs |-> {"plots"}],
      [ok |-> FALSE, outputs |-> {"plots"}],
      [ok |-> FALSE, outputs |-> {}] }

---------------------------------------------------------------------------
(* State machine *)

NoSites == [present |-> FALSE, rows |-> <<>>]

NoInput == [shape |-> <<0, 1, 0, "age_ka">>, found |-> {}]

NoGraph == [raised |-> FALSE, g |-> {}]

DefaultParams == [rw |-> ROLLING_WINDOW, sgw |-> SG_WINDOW, sgp |-> SG_POLYORDER]

Init ==
    /\ script \in {"epica", "sisal", "geo", "main"}
    /\ pc = "start"
    /\ params \in IF script \in {"epica", "sisal"} THEN Params ELSE {DefaultParams}
    /\ rdf_available \in IF script \in {"epica", "sisal"} THEN BOOLEAN ELSE {TRUE}
    /\ bind_namespaces \in IF script \in {"epica", "sisal"} /\ rdf_available
                          THEN {"core", "rdflib"} ELSE {"core"}
    /\ bindings = NoBindings
    /\ today = 1
    /\ run = 1
    /\ prev = <<>>
    /\ plotted = FALSE
    /\ plots = {}
    /\ rdf_dir = NoFiles
    /\ stdout = IF rdf_available THEN {} ELSE {"rdflib not installed"}
    /\ df_ch4 = <<>>
    /\ df_d18o = <<>>
    /\ g_epica = NoGraph
    /\ input = NoInput
    /\ files = <<>>
    /\ df_sites = NoSites
    /\ g_sites = {}
    /\ g_caves = <<>>
    /\ combined = {}
    /\ wkt_in \in IF script = "geo" THEN Texts ELSE {<<>>}
    /\ wkt_out = <<>>
    /\ g_geo = {}
    /\ fc_inputs = <<>>
    /\ args \in IF script = "main" THEN SUBSET Flags ELSE {{}}
    /\ exists \in IF script = "main" THEN [{"epica", "sisal"} -> BOOLEAN]
                  ELSE {[name \in {"epica", "sisal"} |-> TRUE]}
    /\ launched = <<>>
    /\ success = [name \in {"epica", "sisal"} |-> FALSE]
    /\ produced = {}
    /\ exit_code = -1

\* EPICA load_ch4_tab(filepath)
LoadCh4 ==
    /\ script = "epica" /\ pc = "start"
    /\ \E lines \in EpicaFiles({0} \cup FileLengths(params.sgw), {"age", "value", "depth_m"},
                              {1, MaxRows}) :
           df_ch4' = load_tab(lines)
    /\ pc' = "ch4"
    /\ UNCHANGED <<script, params, bind_namespaces, bindings,
                   run_vars, df_d18o, g_epica, sisal_vars, geo_vars,
                   main_vars>>

\* EPICA load_d18o_tab(filepath)
LoadD18o ==
    /\ script = "epica" /\ pc = "ch4"
    /\ \E lines \in EpicaFiles({0, MaxRows, params.sgw}, {"age"}, {2}) :
           df_d18o' = load_tab(lines)
    /\ pc' = "d18o"
    /\ UNCHANGED <<script, params, bind_namespaces, bindings,
                   run_vars, df_ch4, g_epica, sisal_vars, geo_vars,
                   main_vars>>

\* EPICA main(): the loop over the twelve plots, which precedes the export;
\* an exception of create_plot ends the script
CreatePlots ==
    /\ script = "epica" /\ pc = "d18o"
    /\ \E r \in {create_plots(epica_plot_configs(df_ch4, df_d18o, params.rw,
                                                   params.sgw, params.sgp),
                                params.sgw, params.sgp)} :
           /\ plots' = r.written
           /\ pc' = IF r.raised THEN "raised" ELSE "plotted"
    /\ plotted' = TRUE
    /\ UNCHANGED <<script, params, bind_namespaces, bindings,
                   rdf_available, today, run, prev, rdf_dir, stdout,
                   epica_vars, sisal_vars, geo_vars, main_vars>>

\* EPICA export_rdf(df_ch4, df_d18o), called on the loaded tables directly or
\* by main() after the plots, where export_ontology() follows it when rdflib
\* is missing; an exception of build_epica_rdf ends the script
ExportRdf ==
    /\ script = "epica" /\ pc \in {"d18o", "plotted", "again"}
    /\ \E clock \in Clocks(today) :
           \E r \in {export_rdf(df_ch4, df_d18o, rdf_available, clock, params.rw,
                               params.sgw, params.sgp)} :
           LET degraded == plotted /\ ~rdf_available
           IN  /\ g_epica' = IF r.built \/ r.raised THEN [raised |-> r.raised, g |-> r.g]
                             ELSE g_epica
               /\ rdf_dir' = IF degraded
                             THEN export_ontology(<<clock[3], clock[4]>>, params.rw,
                                                  params.sgw, params.sgp)
                                  @@ r.written @@ rdf_dir
                             ELSE r.written @@ rdf_dir
               /\ today' = IF r.raised THEN clock[2]
                           ELSE IF r.built \/ degraded THEN clock[4] ELSE today
               /\ bindings' = IF r.built
                               THEN ("g_epica" :> epica_graph(bind_namespaces)) @@ bindings
                               ELSE bindings
               /\ pc' = IF r.raised THEN "raised" ELSE "done"
    /\ UNCHANGED <<script, params, bind_namespaces, rdf_available, run, prev, plotted,
                   plots, stdout, df_ch4, df_d18o, sisal_vars, geo_vars, main_vars>>

\* the per-cave file of configured cave k in a run of shape <<n, e, hole, missing>>:
\* the k-th file holds the first n - k + 1 samples (at least one)
CaveLines(shape, k) ==
    SisalFileRows(Max(1, shape[1] - (k - 1)), shape[2], shape[3], shape[4])

RECURSIVE load_files(_, _)
\* load_sisal_csv over the configured caves ks whose file exists, in the order
\* of SISAL_FILES: the list of [slug, df] collected for the export;
\* load_sisal_csv raises IndexError on a file without a dated row
\* (df["site_name"].iloc[0]), which ends the script
load_files(shape, ks) ==
    IF ks = <<>> THEN [raised |-> FALSE, loaded |-> <<>>]
    ELSE LET k == Head(ks)
             df == load_sisal_csv(SISAL_FILES[k], CaveLines(shape, k))
             rest == load_files(shape, Tail(ks))
         IN  IF df.rows = <<>> THEN [raised |-> TRUE, loaded |-> <<>>]
             ELSE [raised |-> rest.raised,
                   loaded |-> <<[slug |-> SISAL_FILES[k].slug, df |-> df]>> \o rest.loaded]

RECURSIVE main_loop(_, _, _, _, _)
\* the loop of SISAL main() over the configured caves ks whose file exists:
\* load_sisal_csv, generate_cave_plots, then the table is collected for the
\* export.  Nothing in the loop catches an exception, so the first file
\* without a dated row or the first plot that raises ends the script; loaded
\* and written are the tables collected and the plot files saved until then
main_loop(shape, ks, rw, sgw, sgp) ==
    IF ks = <<>> THEN [raised |-> FALSE, loaded |-> <<>>, written |-> {}]
    ELSE LET k == Head(ks)
             cfg == SISAL_FILES[k]
             df == load_sisal_csv(cfg, CaveLines(shape, k))
             p == create_plots(cave_plot_configs(df, cfg.slug, cfg.d13c_ticks, rw, sgw, sgp),
                               sgw, sgp)
             rest == main_loop(shape, Tail(ks), rw, sgw, sgp)
         IN  IF df.rows = <<>> THEN [raised |-> TRUE, loaded |-> <<>>, written |-> {}]
             ELSE IF p.raised THEN [raised |-> TRUE, loaded |-> <<>>, written |-> p.written]
             ELSE [raised |-> rest.raised,
                   loaded |-> <<[slug |-> cfg.slug, df |-> df]>> \o rest.loaded,
                   written |-> p.written \cup rest.written]

\* SISAL load_sisal_sites_csv and load_sisal_csv: the sites table, when its
\* file exists, and the tables of the per-cave files found
SisalLoad ==
    /\ script = "sisal" /\ pc = "start"
    /\ \E shape \in SisalShapes(params.sgw), found \in FoundSets, m \in {0, MaxSites} :
           \E r \in {load_files(shape, SortedSeq(found))} :
               /\ input' = [shape |-> shape, found |-> found]
               /\ df_sites' = IF m = 0 THEN NoSites
                              ELSE [present |-> TRUE, rows |-> SitesTable(m)]
               /\ files' = r.loaded
               /\ pc' = IF r.raised THEN "raised" ELSE "loaded"
    /\ UNCHANGED <<script, params, bind_namespaces, bindings,
                   run_vars, epica_vars, g_sites, g_caves, combined,
                   geo_vars, main_vars>>

\* SISAL main() up to the export: the sites table is loaded when its file
\* exists, then every per-cave file found is loaded and plotted
SisalMain ==
    /\ script = "sisal" /\ pc = "start"
    /\ \E shape \in SisalShapes(params.sgw), found \in FoundSets, m \in {0, MaxSites} :
           \E r \in {main_loop(shape, SortedSeq(found), params.rw, params.sgw,
                                params.sgp)} :
               /\ input' = [shape |-> shape, found |-> found]
               /\ df_sites' = IF m = 0 THEN NoSites
                              ELSE [present |-> TRUE, rows |-> SitesTable(m)]
               /\ files' = r.loaded
               /\ plots' = r.written
               /\ pc' = IF r.raised THEN "raised" ELSE "loaded"
    /\ plotted' = TRUE
    /\ UNCHANGED <<script, params, bind_namespaces, bindings,
                   rdf_available, today, run, prev, rdf_dir, stdout,
                   epica_vars, g_sites, g_caves, combined, geo_vars, main_vars>>

\* the name of the data file of a cave
cave_data_file(slug) == "sisal_" \o slug \o "_data.ttl"

\* SISAL export_sisal_rdf(loaded_dfs, loaded_slugs, df_sites): without rdflib a
\* notice; else the vocabulary files, the sites graph, the per-cave graphs, and
\* the combined graph they are merged into, each serialised
SisalExport ==
    /\ script = "sisal" /\ pc \in {"loaded", "again"}
    /\ IF ~rdf_available
       THEN /\ stdout' = stdout \cup {"RDF export skipped (rdflib not available)"}
            /\ UNCHANGED <<g_sites, g_caves, combined, rdf_dir, bindings>>
       ELSE /\ g_sites' = IF df_sites.present THEN build_sisal_sites_rdf(df_sites.rows)
                          ELSE {}
            /\ g_caves' = [k \in DOMAIN files |->
                              build_sisal_rdf(files[k].df, files[k].df.site_name,
                                              files[k].slug, params.rw, params.sgw,
                                              params.sgp)]
            /\ combined' = merge_all(merge({}, g_sites'), g_caves')
            /\ rdf_dir' =
                   [name \in {cave_data_file(files[k].slug) : k \in DOMAIN files}
                       |-> <<"turtle", "g_caves", name>>]
                   @@ (IF df_sites.present
                       THEN "sisal_sites.ttl" :> <<"turtle", "g_sites">> ELSE NoFiles)
                   @@ ("sisal_all_data.ttl" :> <<"turtle", "combined">>)
                   @@ ("sisal_ontology.ttl" :> <<"SISAL_ONTOLOGY_TTL">>)
                   @@ write_geo_lod_core
                   @@ write_mermaid(params.rw, params.sgw, params.sgp, 305)
                   @@ rdf_dir
            /\ bindings' =
                   [name \in {cave_data_file(files[k].slug) : k \in DOMAIN files}
                              \cup {"sisal_all_data.ttl"}
                              \cup (IF df_sites.present THEN {"sisal_sites.ttl"} ELSE {})
                       |-> get_graph(bind_namespaces)]
                   @@ bindings
            /\ UNCHANGED stdout
    /\ pc' = "done"
    /\ UNCHANGED <<script, params, bind_namespaces, rdf_available, today, run, prev, plotted, plots,
                   epica_vars, input, files, df_sites, geo_vars, main_vars>>

\* the script is started a second time, later, on the unchanged input files:
\* loading and plotting give what they gave, the export follows; what the
\* first run produced is kept for comparison
RunAgain ==
    /\ script \in {"epica", "sisal"} /\ plotted /\ pc = "done" /\ run = 1
    /\ prev' = [g_epica |-> g_epica.g, g_sites |-> g_sites, g_caves |-> g_caves,
                combined |-> combined, rdf_dir |-> rdf_dir]
    /\ run' = 2
    /\ pc' = "again"
    /\ UNCHANGED <<script, params, bind_namespaces, bindings,
                   rdf_available, today, plotted, plots, rdf_dir, stdout,
                   epica_vars, sisal_vars, geo_vars, main_vars>>

\* geo_lod_utils: wkt_point(lon, lat) produces the text under test
WktPoint ==
    /\ script = "geo" /\ pc = "start" /\ wkt_in = <<>>
    /\ \E lon \in Coords, lat \in Coords : wkt_in' = wkt_point(lon, lat)
    /\ pc' = "point"
    /\ UNCHANGED <<script, params, bind_namespaces, bindings,
                   run_vars, epica_vars, sisal_vars, wkt_out, g_geo,
                   fc_inputs, main_vars>>

\* geo_lod_utils: _ensure_crs applied to the text under test
EnsureCrs ==
    /\ script = "geo" /\ pc \in {"start", "point"}
    /\ wkt_out' = <<_ensure_crs(wkt_in)>>
    /\ pc' = IF pc = "point" THEN "point_once" ELSE "once"
    /\ UNCHANGED <<script, params, bind_namespaces, bindings,
                   run_vars, epica_vars, sisal_vars, wkt_in, g_geo,
                   fc_inputs, main_vars>>

\* geo_lod_utils: _ensure_crs applied to its own result
EnsureCrsAgain ==
    /\ script = "geo" /\ pc \in {"once", "point_once"}
    /\ wkt_out' = Append(wkt_out, _ensure_crs(wkt_out[1]))
    /\ pc' = IF pc = "point_once" THEN "point_twice" ELSE "twice"
    /\ UNCHANGED <<script, params, bind_namespaces, bindings,
                   run_vars, epica_vars, sisal_vars, wkt_in, g_geo,
                   fc_inputs, main_vars>>

\* geo_lod_utils: add_geo_site_from_wkt on a fresh graph (g = get_graph())
AddGeoSiteFromWkt ==
    /\ script = "geo" /\ pc \in {"start", "point"}
    /\ g_geo' = add_geo_site_from_wkt({}, GEOLOD("Cave_site_0001"),
                    GEOLOD("Cave_site_0001_Geometry"), "Bittoo Cave", wkt_in,
                    {GEOLOD("Cave")})
    /\ pc' = "site"
    /\ UNCHANGED <<script, params, bind_namespaces, bindings,
                   run_vars, epica_vars, sisal_vars, wkt_in, wkt_out,
                   fc_inputs, main_vars>>

\* the location lists of an input: the identifiers of its locations, ascending
LocationLists == {SortedSeq(S) : S \in SUBSET (1..(MaxSites + 1))}

\* the member URIs of a location list
member_uris(ids) == [k \in DOMAIN ids |-> GEOLOD("Cave_site_" \o Pad(ids[k], 4))]

\* geo_lod_utils: add_feature_collection on a fresh graph with the locations
\* of a first input
AddFeatureCollection ==
    /\ script = "geo" /\ pc = "start" /\ wkt_in = <<>>
    /\ \E ids \in LocationLists :
           /\ fc_inputs' = <<ids>>
           /\ g_geo' = add_feature_collection({}, GEOLOD("SISAL_Cave_Collection"),
                           "SISAL Cave Collection", member_uris(ids))
    /\ pc' = "collection"
    /\ UNCHANGED <<script, params, bind_namespaces, bindings,
                   run_vars, epica_vars, sisal_vars, wkt_in, wkt_out,
                   main_vars>>

\* geo_lod_utils: the locations of a second input reach the collection, by a
\* second call on the same graph or by merging a graph built from them
AddFeatureCollectionAgain ==
    /\ script = "geo" /\ pc = "collection"
    /\ \E ids \in LocationLists, merged \in BOOLEAN :
           /\ fc_inputs' = Append(fc_inputs, ids)
           /\ g_geo' = IF merged
                       THEN merge(g_geo, add_feature_collection({},
                                GEOLOD("SISAL_Cave_Collection"), "SISAL Cave Collection",
                                member_uris(ids)))
                       ELSE add_feature_collection(g_geo, GEOLOD("SISAL_Cave_Collection"),
                                "SISAL Cave Collection", member_uris(ids))
    /\ pc' = "collection_twice"
    /\ UNCHANGED <<script, params, bind_namespaces, bindings,
                   run_vars, epica_vars, sisal_vars, wkt_in, wkt_out,
                   main_vars>>

\* main.py main(): Preparation; without any script the program exits with 1
Prepare ==
    /\ script = "main" /\ pc = "start"
    /\ IF ~exists["epica"] /\ ~exists["sisal"]
       THEN exit_code' = 1 /\ pc' = "exited"
       ELSE exit_code' = exit_code /\ pc' = "epica_step"
    /\ UNCHANGED <<script, params, bind_namespaces, bindings,
                   run_vars, epica_vars, sisal_vars, geo_vars, args,
                   exists, launched, success, produced>>

\* main.py main(): step 2, run_script(EPICA_SCRIPT, ...) unless --sisal-only
\* is given or the script is missing
RunEpica ==
    /\ script = "main" /\ pc = "epica_step"
    /\ IF run_step(args, exists, "epica")
       THEN \E o \in ScriptOutcomes :
               /\ launched' = Append(launched, "epica")
               /\ success' = [success EXCEPT !["epica"] = o.ok]
               /\ produced' = produced \cup {<<"epica", kind>> : kind \in o.outputs}
       ELSE UNCHANGED <<launched, success, produced>>
    /\ pc' = "sisal_step"
    /\ UNCHANGED <<script, params, bind_namespaces, bindings,
                   run_vars, epica_vars, sisal_vars, geo_vars, args,
                   exists, exit_code>>

\* main.py main(): step 3, run_script(SISAL_SCRIPT, ...) unless --epica-only
\* is given or the script is missing
RunSisal ==
    /\ script = "main" /\ pc = "sisal_step"
    /\ IF run_step(args, exists, "sisal")
       THEN \E o \in ScriptOutcomes :
               /\ launched' = Append(launched, "sisal")
               /\ success' = [success EXCEPT !["sisal"] = o.ok]
               /\ produced' = produced \cup {<<"sisal", kind>> : kind \in o.outputs}
       ELSE UNCHANGED <<launched, success, produced>>
    /\ pc' = "summary"
    /\ UNCHANGED <<script, params, bind_namespaces, bindings,
                   run_vars, epica_vars, sisal_vars, geo_vars, args,
                   exists, exit_code>>

\* main.py main(): the summary and sys.exit
Exit ==
    /\ script = "main" /\ pc = "summary"
    /\ exit_code' = IF \/ ("--epica-only" \notin args /\ ~success["epica"])
                       \/ ("--sisal-only" \notin args /\ ~success["sisal"])
                    THEN 1 ELSE 0
    /\ pc' = "exited"
    /\ UNCHANGED <<script, params, bind_namespaces, bindings,
                   run_vars, epica_vars, sisal_vars, geo_vars, args,
                   exists, launched, success, produced>>

Next ==
    \/ LoadCh4
    \/ LoadD18o
    \/ CreatePlots
    \/ ExportRdf
    \/ SisalLoad
    \/ SisalMain
    \/ SisalExport
    \/ RunAgain
    \/ WktPoint
    \/ EnsureCrs
    \/ EnsureCrsAgain
    \/ AddGeoSiteFromWkt
    \/ AddFeatureCollection
    \/ AddFeatureCollectionAgain
    \/ Prepare
    \/ RunEpica
    \/ RunSisal
    \/ Exit

Spec == Init /\ [][Next]_vars

\* main() of main.py is straight-line code: each step follows the one before,
\* and subprocess.run returns once the started script has ended
FairSpec ==
    Spec /\ WF_vars(Prepare) /\ WF_vars(RunEpica) /\ WF_vars(RunSisal) /\ WF_vars(Exit)

---------------------------------------------------------------------------
(* Properties: reading a graph *)

ObservationClasses ==
    {URIRef("sosa:Observation"), GEOLOD("Delta18OSpeleothemObservation"),
     GEOLOD("Delta13CSpeleothemObservation")}

Triples(g, p) == {t \in g : t[2] = p}

Subjects(g) == {t[1] : t \in g}

Objects(g, s, p) == {t[3] : t \in {u \in g : u[1] = s /\ u[2] = p}}

ObservationNodes(g) ==
    {t[1] : t \in {u \in g : u[2] = "rdf:type" /\ u[3] \in ObservationClasses}}

\* no subject of g has two values of p
Functional(g, p) ==
    LET T == Triples(g, p) IN Cardinality({t[1] : t \in T}) = Cardinality(T)

EpicaBuilt == script = "epica" /\ pc = "done" /\ rdf_available

SisalBuilt == script = "sisal" /\ pc = "done" /\ rdf_available

\* the data graphs a finished run has produced
DataGraphs ==
    IF EpicaBuilt THEN {g_epica.g}
    ELSE IF SisalBuilt THEN Range(g_caves) \cup {combined}
    ELSE {}

\* the rows of a table that have every required field
EpicaComplete(df) ==
    {k \in DOMAIN df : notna(df[k].value) /\ notna(df[k].age) /\ notna(df[k].depth_m)}

SisalComplete(column, rows) ==
    {k \in DOMAIN rows : notna(rows[k][column]) /\ notna(rows[k].age_ka)}

RECURSIVE SisalCompleteUpTo(_)
\* the number of complete (row, property) pairs of the first n loaded caves
SisalCompleteUpTo(n) ==
    IF n = 0 THEN 0
    ELSE Cardinality(SisalComplete("d18o_permille", files[n].df.rows))
         + Cardinality(SisalComplete("d13c_permille", files[n].df.rows))
         + SisalCompleteUpTo(n - 1)

Reverse(seq) == [i \in 1..Len(seq) |-> seq[Len(seq) + 1 - i]]

---------------------------------------------------------------------------
(* C1 *)

\* the links an Observation has once per input row
RowLinks ==
    {"sosa:resultTime", "geolod:ageKaBP", "sosa:hasSimpleResult", "geolod:measuredValue",
     "sosa:observedProperty", "sosa:hasFeatureOfInterest", "geolod:ageChronology",
     "geolod:ageChronologySpeleothem"}

\* C1: Observation identifiers are pairwise distinct.  In the EPICA graph, in
\* every per-cave graph and in the combined graph there are as many
\* Observation nodes as there are complete (row, property) pairs in the
\* tables the graph was built from, and no Observation node carries the age,
\* value, property, sample or chronology of two rows.
C1_ObservationIdsDistinct ==
    /\ \A g \in DataGraphs : \A p \in RowLinks : Functional(g, p)
    /\ EpicaBuilt =>
           Cardinality(ObservationNodes(g_epica.g))
               = Cardinality(EpicaComplete(df_ch4)) + Cardinality(EpicaComplete(df_d18o))
    /\ SisalBuilt =>
           /\ \A k \in DOMAIN g_caves :
                  Cardinality(ObservationNodes(g_caves[k]))
                      = SisalCompleteUpTo(k) - SisalCompleteUpTo(k - 1)
           /\ Cardinality(ObservationNodes(combined)) = SisalCompleteUpTo(Len(files))

\* a combined graph over several caves, one of them with two entities, both
\* properties measured
C1_Witness ==
    /\ SisalBuilt
    /\ Len(files) >= 2
    /\ \E k \in DOMAIN files : \E i \in DOMAIN files[k].df.rows :
           files[k].df.rows[i].entity_id = 2
    /\ Cardinality(ObservationNodes(combined)) >= 6
    /\ \E t \in combined : t[2] = "sosa:observedProperty" /\ t[3] = GEOLOD("Delta13C_Speleothem")

---------------------------------------------------------------------------
(* C2 *)

\* the table of the worked example: depths 10..50, ages 1..5, values
\* 100, 110, 105, 120, 115
ExampleValues == <<100, 110, 105, 120, 115>>

IsExampleEpica(df) ==
    /\ Len(df) = Len(ExampleValues)
    /\ \A k \in DOMAIN df :
           /\ df[k].depth_m = Num(10 * k)
           /\ df[k].age = Num(k)
           /\ df[k].value = Num(ExampleValues[k])

IsExampleSisal(rows) ==
    /\ Len(rows) = Len(ExampleValues)
    /\ \A k \in DOMAIN rows :
           /\ rows[k].entity_id = 1
           /\ rows[k].age_ka = Num(k)
           /\ rows[k].d18o_permille = Num(ExampleValues[k])

\* the rolling-median value the worked example's third observation carries,
\* in every graph built from the example table with a window of 3
ThirdSmoothed ==
    (IF EpicaBuilt /\ params.rw = 3 /\ IsExampleEpica(df_ch4)
     THEN {Objects(g_epica.g, GEOLOD("Obs_CH4_0002"), "geolod:smoothedValue_rollingMedian")}
     ELSE {})
    \cup
    (IF SisalBuilt /\ params.rw = 3
     THEN {Objects(g_caves[k], GEOLOD("Obs_d18O_" \o files[k].slug \o "_e1_00002"),
                   "geolod:smoothedValue_rollingMedian") :
              k \in {j \in DOMAIN files : IsExampleSisal(files[j].df.rows)}}
     ELSE {})

\* C2 as stated: the third observation of the worked example carries the
\* rolling-median value 105, the median of {100, 110, 105}.
C2_Original == \A v \in ThirdSmoothed : v = {Decimal(105)}

\* C2, amended: the third observation of the worked example carries the
\* rolling-median value 110, the median of the centred window {110, 105, 120}.
C2_ThirdIsCentredMedian == \A v \in ThirdSmoothed : v = {Decimal(110)}

\* the EPICA graph built from the example table with a window of 3
C2_Witness ==
    /\ EpicaBuilt /\ params.rw = 3 /\ IsExampleEpica(df_ch4)
    /\ ThirdSmoothed # {}

---------------------------------------------------------------------------
(* C3 *)

\* the Observation nodes of g that observe the property prop
Observing(g, prop) ==
    {t[1] : t \in {u \in g : u[2] = "sosa:observedProperty" /\ u[3] = prop}}

\* the ages g records under age for the nodes in nodes
AgesOf(g, nodes, age) == {t[3] : t \in {u \in g : u[2] = age /\ u[1] \in nodes}}

EpicaFiltered(g, prop, df) ==
    /\ Cardinality(Observing(g, prop)) = Cardinality(EpicaComplete(df))
    /\ AgesOf(g, Observing(g, prop), "sosa:resultTime")
           = {Decimal(val(df[k].age)) : k \in EpicaComplete(df)}

SisalFiltered(g, prop, column, rows) ==
    /\ Cardinality(Observing(g, prop)) = Cardinality(SisalComplete(column, rows))
    /\ AgesOf(g, Observing(g, prop), "geolod:ageKaBP")
           = {Decimal(val(rows[k].age_ka)) : k \in SisalComplete(column, rows)}

\* C3: for every table and every measured property, the graph holds as many
\* Observations as the table has rows with all required fields, and their
\* ages are the ages of exactly those rows; a row without an age leaves no
\* Observation.
C3_OnlyCompleteRows ==
    /\ EpicaBuilt =>
           /\ EpicaFiltered(g_epica.g, GEOLOD("CH4Concentration"), df_ch4)
           /\ EpicaFiltered(g_epica.g, GEOLOD("Delta18O"), df_d18o)
    /\ SisalBuilt =>
           \A k \in DOMAIN g_caves :
               /\ SisalFiltered(g_caves[k], GEOLOD("Delta18O_Speleothem"),
                                "d18o_permille", files[k].df.rows)
               /\ SisalFiltered(g_caves[k], GEOLOD("Delta13C_Speleothem"),
                                "d13c_permille", files[k].df.rows)

\* an EPICA graph built from a CH4 table with an undated row
C3_Witness ==
    /\ EpicaBuilt
    /\ \E k \in DOMAIN df_ch4 : ~notna(df_ch4[k].age)
    /\ Cardinality(Observing(g_epica.g, GEOLOD("CH4Concentration"))) = Len(df_ch4) - 1
    /\ Len(df_ch4) > 1

---------------------------------------------------------------------------
(* C4 *)

\* the links from an Observation to its Sample, ObservableProperty and Chronology
ContextLinks ==
    {"sosa:hasFeatureOfInterest", "sosa:observedProperty", "geolod:ageChronology",
     "geolod:ageChronologySpeleothem"}

\* the objects of p on the Observation nodes of g
Referenced(g, p) ==
    UNION { {t[3] : t \in {u \in Triples(g, p) : u[1] \in nodes}} :
            nodes \in {ObservationNodes(g)} }

\* C4 as stated: Sample, ObservableProperty, Chronology and DataSource of every
\* Observation are subjects of the same graph.
C4_Original ==
    \A g \in DataGraphs :
        \A p \in ContextLinks \cup {"prov:wasDerivedFrom"} :
            Referenced(g, p) \subseteq Subjects(g)

\* C4, amended: Sample, ObservableProperty and Chronology of every Observation
\* are subjects of the same graph; so is the DataSource of an EPICA
\* Observation, while SISAL Observations name geolod:SISALv3_DataSource,
\* which the SISAL data graphs reference and never describe.
C4_ContextDescribed ==
    /\ \A g \in DataGraphs : \A p \in ContextLinks :
           Referenced(g, p) \subseteq Subjects(g)
    /\ EpicaBuilt => Referenced(g_epica.g, "prov:wasDerivedFrom") \subseteq Subjects(g_epica.g)
    /\ SisalBuilt =>
           \A g \in DataGraphs :
               /\ Referenced(g, "prov:wasDerivedFrom") \subseteq {SISALv3_DataSource}
               /\ SISALv3_DataSource \notin Subjects(g)

\* a combined graph with Observations, merged with a sites graph
C4_Witness ==
    /\ SisalBuilt /\ df_sites.present
    /\ ObservationNodes(combined) # {}
    /\ Referenced(combined, "geolod:ageChronologySpeleothem") # {}
    /\ Referenced(combined, "prov:wasDerivedFrom") = {SISALv3_DataSource}

---------------------------------------------------------------------------
(* C5 *)

\* the smoothing individuals g describes
MethodNodes(g) == {t[1] : t \in Triples(g, "geolod:windowSize")}

\* kind, window and order of a described smoothing individual
Signature(g, m) ==
    <<Objects(g, m, "geolod:windowSize"), Objects(g, m, "geolod:polyOrder")>>

\* C5: all Observations of a graph, combined graph included, reference the
\* same rolling-median individual and the same Savitzky-Golay individual;
\* its URI is a function of the parameters alone (so graphs of different
\* datasets agree on it), it is described with the parameters of the run, and
\* no graph describes two individuals with the same parameters.
C5_SmoothingSingleton ==
    \A g \in DataGraphs :
        /\ Referenced(g, "geolod:smoothingMethod_median")
               \subseteq {GEOLOD("RollingMedian_w" \o ToString(params.rw))}
        /\ Referenced(g, "geolod:smoothingMethod_savgol")
               \subseteq {GEOLOD("SavitzkyGolay_w" \o ToString(params.sgw) \o "_p"
                                 \o ToString(params.sgp))}
        /\ \A m \in Referenced(g, "geolod:smoothingMethod_median") :
               Signature(g, m) = <<{Integer(params.rw)}, {}>>
        /\ \A m \in Referenced(g, "geolod:smoothingMethod_savgol") :
               Signature(g, m) = <<{Integer(params.sgw)}, {Integer(params.sgp)}>>
        /\ \A m1 \in MethodNodes(g), m2 \in MethodNodes(g) :
               Signature(g, m1) = Signature(g, m2) => m1 = m2

\* two caves whose Observations carry both smoothings, merged
C5_Witness ==
    /\ SisalBuilt /\ Len(g_caves) >= 2
    /\ \A k \in 1..2 : Referenced(g_caves[k], "geolod:smoothingMethod_savgol") # {}
    /\ Referenced(combined, "geolod:smoothingMethod_median") # {}

---------------------------------------------------------------------------
(* C6 *)

\* a text that begins with the EPSG:4326 prefix
StartsWithPrefix(text) ==
    Len(text) >= Len(CrsPrefix) /\ SubSeq(text, 1, Len(CrsPrefix)) = CrsPrefix

\* C6 as stated: _ensure_crs returns an already CRS-tagged text unchanged,
\* applying it twice gives what applying it once gives, for every text, and
\* it returns the output of wkt_point unchanged.
C6_EnsureCrsIdempotent ==
    /\ pc \in {"once", "twice"} /\ StartsWithPrefix(wkt_in) => wkt_out[1] = wkt_in
    /\ pc \in {"twice", "point_twice"} => wkt_out[2] = wkt_out[1]
    /\ pc \in {"point_once", "point_twice"} => wkt_out[1] = wkt_in

---------------------------------------------------------------------------
(* C7 *)

\* str.count(f"<{CRS_WGS84}>")
CountPrefix(text) ==
    Cardinality({i \in 1..(Len(text) - 2) :
        text[i] = "<" /\ text[i + 1] = CRS_WGS84 /\ text[i + 2] = ">"})

\* the texts stored as geo:asWKT of the geometry node by AddGeoSiteFromWkt
StoredWkt ==
    {o[2] : o \in Objects(g_geo, GEOLOD("Cave_site_0001_Geometry"), "geo:asWKT")}

\* the text under test without its surrounding blanks, characterised on
\* wkt_in itself: the sub-text from the first to the last non-blank token
Trimmed ==
    LET solid == {i \in DOMAIN wkt_in : wkt_in[i] # " "}
    IN  IF solid = {} THEN <<>>
        ELSE SubSeq(wkt_in, CHOOSE i \in solid : \A j \in solid : i <= j,
                            CHOOSE i \in solid : \A j \in solid : i >= j)

\* C7 as stated: whatever the text (bare, tagged, or starting with another
\* '<...>' token), the stored literal contains the EPSG:4326 prefix exactly
\* once and the geometry node has exactly one literal.
C7_Original ==
    pc = "site" =>
        /\ Cardinality(StoredWkt) = 1
        /\ \A w \in StoredWkt : CountPrefix(w) = 1

\* C7, amended: the geometry node has exactly one literal; for a bare text
\* that does not contain the prefix, and for a text that begins with the
\* EPSG:4326 prefix and contains it once, the literal contains the prefix
\* exactly once; a text that begins with any other '<...>' token is stored as
\* given, blanks around it removed, with no prefix added.
C7_PrefixOnceUnlessOtherTag ==
    pc = "site" =>
        /\ Cardinality(StoredWkt) = 1
        /\ (Trimmed = <<>> \/ Head(Trimmed) # "<") /\ CountPrefix(Trimmed) = 0
               => \A w \in StoredWkt : CountPrefix(w) = 1 /\ StartsWithPrefix(w)
        /\ StartsWithPrefix(Trimmed) /\ CountPrefix(Trimmed) = 1
               => \A w \in StoredWkt : CountPrefix(w) = 1 /\ w = Trimmed
        /\ Trimmed # <<>> /\ Head(Trimmed) = "<"
               => StoredWkt = {Trimmed}

\* an already tagged text stored by add_geo_site_from_wkt
C7_Witness ==
    /\ pc = "site"
    /\ wkt_in = CrsPrefix \o <<"POINT(0 0)">>
    /\ StoredWkt = {wkt_in}

---------------------------------------------------------------------------
(* C8 *)

\* '<CRS-URI> POINT(lon lat)'
Canonical(text) ==
    /\ Len(text) = Len(CrsPrefix) + 5
    /\ StartsWithPrefix(text)
    /\ text[5] = "POINT(" /\ text[7] = " " /\ text[9] = ")"

\* the graphs a finished run of the pipeline has produced
ProducedGraphs == DataGraphs \cup (IF SisalBuilt /\ df_sites.present THEN {g_sites} ELSE {})

\* C8 as stated: every geo:asWKT literal of every produced graph, for the
\* EPICA drilling site as for the SISAL caves, has the form
\* '<CRS-URI> POINT(lon lat)'.
C8_GeometryCanonical ==
    \A g \in ProducedGraphs : \A t \in Triples(g, "geo:asWKT") : Canonical(t[3][2])

---------------------------------------------------------------------------
(* C9 *)

\* the graphs export_sisal_rdf merges, in its order
MergeInputs == <<g_sites>> \o g_caves

\* C9: merging the inputs in the reverse order, or any two of them in either
\* order, gives the same triple set; the combined graph is the one every
\* order gives.
C9_MergeCommutes ==
    SisalBuilt =>
        /\ combined = merge_all({}, Reverse(MergeInputs))
        /\ \A i \in DOMAIN MergeInputs, j \in DOMAIN MergeInputs :
               merge_all({}, <<MergeInputs[i], MergeInputs[j]>>)
                   = merge_all({}, <<MergeInputs[j], MergeInputs[i]>>)

\* a sites graph and two different per-cave graphs, merged
C9_Witness ==
    /\ SisalBuilt /\ df_sites.present /\ Len(g_caves) >= 2
    /\ g_caves[1] # g_caves[2]
    /\ g_sites # {} /\ g_sites # g_caves[1]
    /\ combined # g_caves[Len(g_caves)]

---------------------------------------------------------------------------
(* C10 *)

\* C10: the combined graph holds every triple of the sites graph and of every
\* per-cave graph and no other triple; a triple several inputs share is one
\* element of it.
C10_CombinedIsUnion ==
    SisalBuilt =>
        /\ \A t \in g_sites : t \in combined
        /\ \A k \in DOMAIN g_caves : \A t \in g_caves[k] : t \in combined
        /\ \A t \in combined : t \in g_sites \/ \E k \in DOMAIN g_caves : t \in g_caves[k]
        /\ \A i \in DOMAIN g_caves, j \in DOMAIN g_caves :
               Cardinality(merge(g_caves[i], g_caves[j]))
                   = Cardinality(g_caves[i]) + Cardinality(g_caves[j])
                     - Cardinality(g_caves[i] \cap g_caves[j])

\* three inputs merged, two of them sharing the definitions of the smoothing
\* individuals
C10_Witness ==
    /\ SisalBuilt /\ df_sites.present /\ Len(g_caves) = 2
    /\ \E t \in g_caves[1] \cap g_caves[2] : t[2] = "geolod:windowSize"
    /\ Cardinality(combined) > Cardinality(g_caves[1])
    /\ Cardinality(combined)
           < Cardinality(g_sites) + Cardinality(g_caves[1]) + Cardinality(g_caves[2])

---------------------------------------------------------------------------
(* C11 *)

\* the rdfs:member links of a collection in a graph
MemberLinks(g, collection) ==
    {t \in g : t[1] = collection /\ t[2] = "rdfs:member"}

\* the location identifiers of the i-th input handed to add_feature_collection
InputIds(i) == Range(fc_inputs[i])

\* C11: when the locations of two inputs are added to the same
\* FeatureCollection (a second add_feature_collection call on the graph, or a
\* merge of two graphs), a location the inputs share is a member once: the
\* collection has one rdfs:member link per distinct location, so a 3-location
\* and a 2-location input sharing one location give exactly 4 links
C11_SharedLocationOnce ==
    (script = "geo" /\ pc = "collection_twice") =>
        LET links == MemberLinks(g_geo, GEOLOD("SISAL_Cave_Collection"))
            ids == InputIds(1) \cup InputIds(2)
        IN  /\ {t[3] : t \in links}
                   = {GEOLOD("Cave_site_" \o Pad(i, 4)) : i \in ids}
            /\ Cardinality(links)
                   = Cardinality(InputIds(1)) + Cardinality(InputIds(2))
                     - Cardinality(InputIds(1) \cap InputIds(2))
            /\ (/\ Cardinality(InputIds(1)) = 3 /\ Cardinality(InputIds(2)) = 2
                /\ Cardinality(InputIds(1) \cap InputIds(2)) = 1)
               => Cardinality(links) = 4

C11_Witness ==
    /\ script = "geo" /\ pc = "collection_twice"
    /\ Cardinality(InputIds(1)) = 3 /\ Cardinality(InputIds(2)) = 2
    /\ Cardinality(InputIds(1) \cap InputIds(2)) = 1
    /\ Cardinality(MemberLinks(g_geo, GEOLOD("SISAL_Cave_Collection"))) = 4

---------------------------------------------------------------------------
(* C12 *)

\* the nodes a graph describes as caves
Caves(g) == {t[1] : t \in {u \in g : u[2] = "rdf:type" /\ u[3] = GEOLOD("Cave")}}

\* C12: in the combined graph the membership of the FeatureCollection is the
\* union of the locations of the merged inputs: every Cave the sites graph or
\* a per-cave data graph describes is an rdfs:member of the collection, once
C12_CollectionCoversEveryCave ==
    SisalBuilt =>
        LET links == MemberLinks(combined, GEOLOD("SISAL_Cave_Collection"))
            described == Caves(g_sites) \cup UNION {Caves(g_caves[k]) : k \in DOMAIN g_caves}
        IN  /\ {t[3] : t \in links} = described
            /\ Cardinality(links) = Cardinality(described)

---------------------------------------------------------------------------
(* C13 *)

\* a second run over the unchanged input has finished its export
BuiltAgain == (EpicaBuilt \/ SisalBuilt) /\ run = 2

\* the data graphs of the first run and of the second, in the same order
FirstGraphs == IF script = "epica" THEN <<prev.g_epica>>
               ELSE <<prev.g_sites, prev.combined>> \o prev.g_caves

SecondGraphs == IF script = "epica" THEN <<g_epica.g>>
                ELSE <<g_sites, combined>> \o g_caves

\* the generation dates a graph embeds, and the graph without them
Timestamps(g) == {t[3] : t \in {u \in g : u[3][1] = "T"}}

Undated(g) == {<<t[1], t[2], IF t[3][1] = "T" THEN <<"T">> ELSE t[3]>> : t \in g}

\* C13: two runs of the data-graph build over unchanged input, at any two
\* points in time, give the same triples except for a single generation
\* timestamp value embedded in each graph
C13_RerunDiffersInOneTimestamp ==
    BuiltAgain =>
        /\ Len(FirstGraphs) = Len(SecondGraphs)
        /\ \A k \in DOMAIN FirstGraphs :
               /\ Undated(FirstGraphs[k]) = Undated(SecondGraphs[k])
               /\ Cardinality(Timestamps(FirstGraphs[k])) <= 1
               /\ Cardinality(Timestamps(SecondGraphs[k])) <= 1

---------------------------------------------------------------------------
(* C14 *)

StaticVocabularyFiles == {"geo_lod_core.ttl", "sisal_ontology.ttl", "epica_ontology.ttl"}

\* a second run of a script with the same parameters has written its files
WrittenAgain == script \in {"epica", "sisal"} /\ pc = "done" /\ run = 2

\* C14: a static vocabulary file written again into the same directory, with
\* the same smoothing parameters, has the text it had after the first run,
\* whenever the second run takes place
C14_StaticVocabularyRegenerated ==
    WrittenAgain =>
        \A name \in StaticVocabularyFiles \cap DOMAIN rdf_dir \cap DOMAIN prev.rdf_dir :
            rdf_dir[name] = prev.rdf_dir[name]

---------------------------------------------------------------------------
(* C15 *)

\* a run of main() of the EPICA or the SISAL script without rdflib
Degraded == script \in {"epica", "sisal"} /\ plotted /\ ~rdf_available

\* the names of the three plots of one isotope of a cave
CavePlotNames(slug, name) ==
    {slug \o "_" \o name \o "_age_" \o label :
        label \in {"unsmoothed", smooth_label(params.rw),
                   savgol_label(params.sgw, params.sgp)}}

\* the plots a completed run owes: twelve for EPICA; for SISAL, per loaded
\* cave, three per isotope that has a row (d13C only where ticks are configured)
AllPlotsGenerated ==
    IF script = "epica" THEN Cardinality(plots) = 12
    ELSE \A k \in DOMAIN files :
            LET df == files[k].df
                cfg == CHOOSE c \in Range(SISAL_FILES) : c.slug = files[k].slug
            IN  /\ sisal_valid("d18O", df.rows) # <<>>
                       => CavePlotNames(cfg.slug, "d18o") \subseteq plots
                /\ (cfg.d13c_ticks /\ sisal_valid("d13C", df.rows) # <<>>)
                       => CavePlotNames(cfg.slug, "d13c") \subseteq plots

---------------------------------------------------------------------------
(* C16 *)

\* a series of n valid values is shorter than the Savitzky-Golay window
ShorterThanWindow(n) == 0 < n /\ n < params.sgw

\* the nodes of g observing prop carry no Savitzky-Golay triple, and there is
\* one of them per complete row, with its measured value and its age
RawOnly(g, prop, age, n) ==
    LET nodes == Observing(g, prop)
    IN  /\ Cardinality(nodes) = n
        /\ \A obs \in nodes :
               /\ Objects(g, obs, "geolod:smoothedValue_savgol") = {}
               /\ Objects(g, obs, "geolod:smoothingMethod_savgol") = {}
               /\ Cardinality(Objects(g, obs, "geolod:measuredValue")) = 1
               /\ Cardinality(Objects(g, obs, age)) = 1

\* C16: when a series of valid values is shorter than the filter window, no
\* exception leaves build_epica_rdf or build_sisal_rdf, the builder returns a
\* graph, and in it every valid row of that series has its Observation with
\* the measured value and the age and without Savitzky-Golay triples
C16_WindowErrorCaught ==
    /\ (script = "epica" /\ rdf_available /\ pc \in {"done", "raised"} /\ ~plotted) =>
           LET n_ch4 == Cardinality(EpicaComplete(df_ch4))
               n_d18o == Cardinality(EpicaComplete(df_d18o))
           IN  (ShorterThanWindow(n_ch4) \/ ShorterThanWindow(n_d18o)) =>
                   /\ ~g_epica.raised
                   /\ ShorterThanWindow(n_ch4) =>
                          RawOnly(g_epica.g, GEOLOD("CH4Concentration"),
                                  "sosa:resultTime", n_ch4)
                   /\ ShorterThanWindow(n_d18o) =>
                          RawOnly(g_epica.g, GEOLOD("Delta18O"), "sosa:resultTime", n_d18o)
    /\ SisalBuilt =>
           \A k \in DOMAIN g_caves :
               LET n18 == Cardinality(SisalComplete("d18o_permille", files[k].df.rows))
                   n13 == Cardinality(SisalComplete("d13c_permille", files[k].df.rows))
               IN  /\ ShorterThanWindow(n18) =>
                          RawOnly(g_caves[k], GEOLOD("Delta18O_Speleothem"),
                                  "geolod:ageKaBP", n18)
                   /\ ShorterThanWindow(n13) =>
                          RawOnly(g_caves[k], GEOLOD("Delta13C_Speleothem"),
                                  "geolod:ageKaBP", n13)

---------------------------------------------------------------------------
(* C17 *)

\* a run of main() of the SISAL script with rdflib has ended, by an exception
\* or normally
SisalRunEnded == script = "sisal" /\ plotted /\ rdf_available /\ pc \in {"raised", "done"}

\* the table and the plots of the file of configured cave k in this run
CaveTable(k) == load_sisal_csv(SISAL_FILES[k], CaveLines(input.shape, k))

CavePlots(k) ==
    create_plots(cave_plot_configs(CaveTable(k), SISAL_FILES[k].slug,
                                   SISAL_FILES[k].d13c_ticks, params.rw, params.sgw,
                                   params.sgp),
                 params.sgw, params.sgp)

\* nothing fails in the processing of cave k taken alone
Healthy(k) == CaveTable(k).rows # <<>> /\ ~CavePlots(k).raised

\* C17: when a run of the SISAL script over the caves found has ended, every
\* cave whose own processing fails nowhere has its plots and its data graph
\* file, whatever happened to the other caves
C17_OtherCavesProduced ==
    SisalRunEnded =>
        \A k \in input.found :
            Healthy(k) =>
                /\ CavePlots(k).written \subseteq plots
                /\ cave_data_file(SISAL_FILES[k].slug) \in DOMAIN rdf_dir

---------------------------------------------------------------------------
(* C18 *)

\* main() of main.py is past its two steps
StepsDone == script = "main" /\ pc \in {"summary", "exited"}

\* the scripts that exist, EPICA first
ExistingScripts ==
    (IF exists["epica"] THEN <<"epica">> ELSE <<>>)
    \o (IF exists["sisal"] THEN <<"sisal">> ELSE <<>>)

\* C18: with --epica-only the SISAL script is never launched, with
\* --sisal-only the EPICA script is never launched, and with neither flag the
\* scripts launched are those that exist, each once, EPICA before SISAL
C18_OnlyFlagsSelectScripts ==
    script = "main" =>
        /\ "--epica-only" \in args => "sisal" \notin Range(launched)
        /\ "--sisal-only" \in args => "epica" \notin Range(launched)
        /\ (StepsDone /\ "--epica-only" \notin args /\ "--sisal-only" \notin args)
               => launched = ExistingScripts

C18_Witness ==
    /\ StepsDone /\ pc = "exited"
    /\ "--epica-only" \notin args /\ "--sisal-only" \notin args
    /\ exists["epica"] /\ exists["sisal"]
    /\ launched = <<"epica", "sisal">>

---------------------------------------------------------------------------
(* C19 *)

Scripts == {"epica", "sisal"}

\* C19: a pipeline run with --no-rdf produces no RDF output, and a run with
\* --no-plots produces no plots
C19_OutputFlagsRespected ==
    script = "main" =>
        /\ "--no-rdf" \in args => \A s \in Scripts : <<s, "rdf">> \notin produced
        /\ "--no-plots" \in args => \A s \in Scripts : <<s, "plots">> \notin produced

---------------------------------------------------------------------------
(* C20 *)

\* the rows of g by identifier: each Observation with the age and the
\* measured value it records
RowsById(g) ==
    {<<obs,
       Objects(g, obs, "sosa:resultTime") \cup Objects(g, obs, "geolod:ageKaBP"),
       Objects(g, obs, "geolod:measuredValue")>> : obs \in ObservationNodes(g)}

---------------------------------------------------------------------------
(* C21 *)

\* every prefix of the NS registry is bound in b, to the registry's URI
BindsRegistry(b) == \A prefix \in DOMAIN NS : prefix \in DOMAIN b /\ b[prefix] = NS[prefix]

\* C21: every graph the pipeline has built (the EPICA graph, the SISAL sites,
\* per-cave and combined graphs) has every prefix of the NS registry bound, to
\* the same URI
C21_RegistryBoundEverywhere ==
    \A name \in DOMAIN bindings : BindsRegistry(bindings[name])

---------------------------------------------------------------------------
(* C22 *)

\* C22: in every graph produced, the combined graph included, each
\* Observation has exactly one feature of interest (its Sample) and exactly
\* one observed property
C22_OneSampleOneProperty ==
    \A g \in ProducedGraphs :
        \A obs \in ObservationNodes(g) :
            /\ Cardinality(Objects(g, obs, "sosa:hasFeatureOfInterest")) = 1
            /\ Cardinality(Objects(g, obs, "sosa:observedProperty")) = 1

\* an EPICA graph with Observations of both quantities
C22_Witness ==
    /\ EpicaBuilt
    /\ Observing(g_epica.g, GEOLOD("CH4Concentration")) # {}
    /\ Observing(g_epica.g, GEOLOD("Delta18O")) # {}
    /\ \A obs \in ObservationNodes(g_epica.g) :
           Cardinality(Objects(g_epica.g, obs, "sosa:hasFeatureOfInterest")) = 1

---------------------------------------------------------------------------
(* C23 *)

\* the chronologies g links to obs, by ageChronology or its sub-property
ChronologiesOf(g, obs) ==
    Objects(g, obs, "geolod:ageChronology")
    \cup Objects(g, obs, "geolod:ageChronologySpeleothem")

\* the number of chronology links of obs in g
ChronologyLinks(g, obs) ==
    Cardinality({t \in g : t[1] = obs /\ t[2] \in {"geolod:ageChronology",
                                                  "geolod:ageChronologySpeleothem"}})

\* C23: every Observation has exactly one chronology link, to the chronology
\* of the dataset its row came from: EDC2 for CH4, AICC2023 for EPICA d18O,
\* and for a SISAL row the U-Th chronology of its own cave, in the per-cave
\* graph and in the combined graph
C23_OwnChronology ==
    /\ EpicaBuilt =>
           \A obs \in ObservationNodes(g_epica.g) :
               /\ ChronologyLinks(g_epica.g, obs) = 1
               /\ ChronologiesOf(g_epica.g, obs) =
                      IF obs \in Observing(g_epica.g, GEOLOD("CH4Concentration"))
                      THEN {GEOLOD("EDC2_Chronology")}
                      ELSE {GEOLOD("AICC2023_Chronology")}
    /\ SisalBuilt =>
           /\ \A k \in DOMAIN g_caves :
                  \A obs \in ObservationNodes(g_caves[k]) :
                      \A g \in {g_caves[k], combined} :
                          /\ ChronologyLinks(g, obs) = 1
                          /\ ChronologiesOf(g, obs)
                                 = {GEOLOD("UThChronology_" \o files[k].slug)}
           /\ \A obs \in ObservationNodes(combined) : ChronologyLinks(combined, obs) = 1

\* a combined graph whose Observations reference the chronologies of two caves
C23_Witness ==
    /\ SisalBuilt /\ Len(g_caves) >= 2
    /\ \E obs1 \in ObservationNodes(g_caves[1]), obs2 \in ObservationNodes(g_caves[2]) :
           /\ ChronologiesOf(combined, obs1) = {GEOLOD("UThChronology_" \o files[1].slug)}
           /\ ChronologiesOf(combined, obs2) = {GEOLOD("UThChronology_" \o files[2].slug)}
           /\ files[1].slug # files[2].slug

---------------------------------------------------------------------------
(* C24 *)

\* the Cave nodes of g that carry the site id sid, and their geometry nodes
CavesOfSite(g, sid) == {cave \in Caves(g) : sid \in Objects(g, cave, "geolod:siteId")}

GeometriesOfSite(g, sid) ==
    UNION {Objects(g, cave, "geo:hasGeometry") : cave \in CavesOfSite(g, sid)}

SiteIds(g) == {t[3] : t \in Triples(g, "geolod:siteId")}

\* C24: in the combined graph every site id belongs to exactly one Cave node
\* and at most one geometry node, which has one WKT literal, also when the
\* cave occurs both in the sites table and in a per-cave table
C24_OneLocationPerSite ==
    SisalBuilt =>
        \A sid \in SiteIds(combined) :
            /\ Cardinality(CavesOfSite(combined, sid)) = 1
            /\ Cardinality(GeometriesOfSite(combined, sid)) <= 1
            /\ \A geom \in GeometriesOfSite(combined, sid) :
                   Cardinality(Objects(combined, geom, "geo:asWKT")) = 1

---------------------------------------------------------------------------
(* C25 *)

\* the predicates under which an Observation carries each required item; the
\* EPICA and the SISAL vocabulary name result, age and chronology differently
RequiredItems ==
    { {"rdf:type"}, {"sosa:hasFeatureOfInterest"}, {"sosa:observedProperty"},
      {"sosa:hasSimpleResult", "geolod:measuredValue"},
      {"sosa:resultTime", "geolod:ageKaBP"},
      {"geolod:ageChronology", "geolod:ageChronologySpeleothem"},
      {"prov:wasDerivedFrom"} }

DepthItem == {"geolod:atDepth_m", "geolod:atDepth_mm"}

\* obs has a triple under one of the predicates
Has(g, obs, predicates) == \E t \in g : t[1] = obs /\ t[2] \in predicates

\* the subjects of g that have a triple under one of the predicates
Carrying(g, predicates) == {t[1] : t \in {u \in g : u[2] \in predicates}}

WithDepth(g) == ObservationNodes(g) \cap Carrying(g, DepthItem)

\* the complete (row, property) pairs of a cave table whose row has a depth
SisalCompleteWithDepth(rows) ==
    {<<column, k>> \in {"d18o_permille", "d13c_permille"} \X DOMAIN rows :
        k \in SisalComplete(column, rows) /\ notna(rows[k].depth_sample)}

---------------------------------------------------------------------------
(* C26 *)

\* per smoothing kind, the predicate of the smoothed value and of the method link
SmoothingKinds ==
    { <<"geolod:smoothedValue_rollingMedian", "geolod:smoothingMethod_median">>,
      <<"geolod:smoothedValue_savgol", "geolod:smoothingMethod_savgol">> }

\* C26: for each smoothing kind, an Observation of a produced data graph has
\* the method link of that kind exactly when it has the smoothed value of that
\* kind, and it has at most one value and at most one link of each kind
C26_SmoothingPaired ==
    \A g \in DataGraphs :
        \A nodes \in {ObservationNodes(g)} :
            \A kind \in SmoothingKinds :
                \A values \in {{t \in Triples(g, kind[1]) : t[1] \in nodes}},
                   methods \in {{t \in Triples(g, kind[2]) : t[1] \in nodes}} :
                    /\ {t[1] : t \in values} = {t[1] : t \in methods}
                    /\ Cardinality(values) = Cardinality({t[1] : t \in values})
                    /\ Cardinality(methods) = Cardinality({t[1] : t \in methods})

\* a cave graph with an Observation that has the rolling-median pair and,
\* its series being shorter than the filter window, no Savitzky-Golay pair
C26_Witness ==
    /\ SisalBuilt /\ g_caves # <<>>
    /\ \E obs \in ObservationNodes(g_caves[1]) :
           /\ Objects(g_caves[1], obs, "geolod:smoothedValue_rollingMedian") # {}
           /\ Objects(g_caves[1], obs, "geolod:smoothingMethod_median") # {}
           /\ Objects(g_caves[1], obs, "geolod:smoothedValue_savgol") = {}
           /\ Objects(g_caves[1], obs, "geolod:smoothingMethod_savgol") = {}

---------------------------------------------------------------------------
(* C27 *)

\* the subjects of g that have o as a value of p
SubjectsWith(g, p, o) == {t[1] : t \in {u \in g : u[2] = p /\ u[3] = o}}

\* the Observations of g that observe prop on sample with the age of row
ObservationsOfRow(g, prop, sample, age_link, age) ==
    Observing(g, prop) \cap SubjectsWith(g, "sosa:hasFeatureOfInterest", sample)
                       \cap SubjectsWith(g, age_link, Decimal(Round(val(age), 4)))

\* the k-th valid row of an EPICA table has one Observation, carrying the k-th
\* elements of the two smoothed series of the valid values in table order
EpicaAligned(g, prop, df) ==
    \A valid \in {epica_valid(df)} :
        \A xs \in {[k \in DOMAIN valid |-> val(valid[k].value)]},
           med \in {rolling_median([k \in DOMAIN valid |-> val(valid[k].value)], params.rw)} :
            \A k \in DOMAIN valid :
                LET nodes == ObservationsOfRow(g, prop, GEOLOD("EpicaDomeC_IceCore"),
                                               "sosa:resultTime", valid[k].age)
                IN  /\ Cardinality(nodes) = 1
                    /\ \A obs \in nodes :
                           /\ Objects(g, obs, "geolod:smoothedValue_rollingMedian")
                                  = {med[k]}
                           /\ Objects(g, obs, "geolod:smoothedValue_savgol")
                                  = {<<"G", params.sgw, params.sgp, xs, k>>}

\* the same for the valid rows of one property of one entity of a cave; the
\* Savitzky-Golay value is absent when the filter raised
SisalAligned(g, kind, prop, slug, rows, entity_id) ==
    LET grp == SelectIdx(rows, [k \in DOMAIN rows |-> rows[k].entity_id = entity_id])
        sample == GEOLOD("Speleothem_" \o slug \o "_e" \o ToString(entity_id))
    IN  \A sub \in {sisal_valid(kind, grp)} :
        \A xs \in {[k \in DOMAIN sub |-> val(sisal_cell(kind, sub[k]))]},
           med \in {rolling_median([k \in DOMAIN sub |-> val(sisal_cell(kind, sub[k]))],
                                   params.rw)} :
            \A k \in DOMAIN sub :
                LET nodes == ObservationsOfRow(g, prop, sample, "geolod:ageKaBP",
                                               sub[k].age_ka)
                IN  /\ Cardinality(nodes) = 1
                    /\ \A obs \in nodes :
                           /\ Objects(g, obs, "geolod:smoothedValue_rollingMedian")
                                  = {med[k]}
                           /\ Objects(g, obs, "geolod:smoothedValue_savgol")
                                  = IF savgol_raises(xs, params.sgw, params.sgp) THEN {}
                                    ELSE {<<"G", params.sgw, params.sgp, xs, k>>}

\* C27: the Observation built from the k-th valid row of a series carries the
\* k-th element of each smoothed series computed over the valid values of
\* that series in their row order, also when invalid rows lie between the
\* valid ones and when the rows of several speleothems alternate in the file
C27_SmoothedAligned ==
    /\ EpicaBuilt =>
           /\ EpicaAligned(g_epica.g, GEOLOD("CH4Concentration"), df_ch4)
           /\ EpicaAligned(g_epica.g, GEOLOD("Delta18O"), df_d18o)
    /\ SisalBuilt =>
           \A c \in DOMAIN g_caves :
               LET rows == files[c].df.rows
               IN  \A entity_id \in {rows[k].entity_id : k \in DOMAIN rows} :
                       /\ SisalAligned(g_caves[c], "d18O", GEOLOD("Delta18O_Speleothem"),
                                       files[c].slug, rows, entity_id)
                       /\ SisalAligned(g_caves[c], "d13C", GEOLOD("Delta13C_Speleothem"),
                                       files[c].slug, rows, entity_id)

\* an EPICA graph from a CH4 table with an invalid row between valid ones,
\* whose rolling medians are not all equal
C27_Witness ==
    /\ EpicaBuilt
    /\ \E k \in 2..(Len(df_ch4) - 1) : ~notna(df_ch4[k].age) \/ ~notna(df_ch4[k].value)
                                        \/ ~notna(df_ch4[k].depth_m)
    /\ Cardinality({t[3] : t \in Triples(g_epica.g, "geolod:smoothedValue_rollingMedian")}) >= 2
    /\ EpicaAligned(g_epica.g, GEOLOD("CH4Concentration"), df_ch4)

---------------------------------------------------------------------------
(* C28 *)

\* the nodes g types as class
InstancesOf(g, class) == {t[1] : t \in {u \in g : u[2] = "rdf:type" /\ u[3] = class}}

\* the Datasets of g that group obs, and the Catalogs of g that group dataset
DatasetsOf(g, obs) ==
    {d \in InstancesOf(g, URIRef("dcat:Dataset")) :
        <<d, "geolod:hasObservation", obs>> \in g \/ <<d, "dcat:record", obs>> \in g}

CatalogsOf(g, dataset) ==
    {c \in InstancesOf(g, URIRef("dcat:Catalog")) : <<c, "dcat:dataset", dataset>> \in g}

\* every Observation of g is grouped by a Dataset of g and every such Dataset
\* by a Catalog of g
Grouped(g) ==
    \A obs \in ObservationNodes(g) :
        /\ DatasetsOf(g, obs) # {}
        /\ \A d \in DatasetsOf(g, obs) : CatalogsOf(g, d) # {}

\* the graphs built per dataset: the EPICA graph, the per-cave graphs
PerDatasetGraphs ==
    IF EpicaBuilt THEN {g_epica.g} ELSE IF SisalBuilt THEN Range(g_caves) ELSE {}

\* C28: in every per-dataset graph each Observation is grouped by a Dataset
\* node of that graph and each such Dataset by a Catalog node of that graph
C28_DatasetCatalogMembership == \A g \in PerDatasetGraphs : Grouped(g)

---------------------------------------------------------------------------
(* C29 *)

\* the EPICA step has ended in failure, and SISAL is selected and exists
EpicaFailedSisalDue ==
    /\ script = "main" /\ pc = "sisal_step"
    /\ launched = <<"epica">> /\ ~success["epica"]
    /\ "--epica-only" \notin args /\ exists["sisal"]

\* C29: when the EPICA step has failed and SISAL is selected and its script
\* exists, the SISAL script is launched next, and main() then exits with a
\* non-zero status
C29_SisalRunsAfterEpicaFailure ==
    EpicaFailedSisalDue
        ~> (pc = "exited" /\ launched = <<"epica", "sisal">> /\ exit_code = 1)

\* a run that exited after a failed EPICA step and a successful SISAL step
C29_Witness ==
    /\ script = "main" /\ pc = "exited"
    /\ launched = <<"epica", "sisal">>
    /\ ~success["epica"] /\ success["sisal"]
    /\ exit_code = 1

---------------------------------------------------------------------------
(* C30 *)

\* the steps the flags select
SelectedSteps ==
    (IF "--sisal-only" \in args THEN {} ELSE {"epica"})
    \cup (IF "--epica-only" \in args THEN {} ELSE {"sisal"})

\* C30: main() exits with status 0 exactly when some step was run and every
\* selected step completed successfully; so with --epica-only and a
\* successful EPICA script the status is 0, and it is never 0 when no step ran
C30_ExitReflectsSelectedSteps ==
    (script = "main" /\ pc = "exited") =>
        (exit_code = 0 <=> (launched # <<>> /\ \A s \in SelectedSteps : success[s]))

====
